---------------------------- MODULE Spec2Model ----------------------------
(***************************************************************************)
(* A model of qwen-proxy: the account store kept in                        *)
(* ~/.qwen-proxy/accounts.json (src/src/accounts/manager.js), the account  *)
(* commands of the CLI that rewrite the same file (src/src/cli.js), and    *)
(* the chat-completion handler of the server (src/src/server.js), its     *)
(* streaming loop, and the device authorization flow of                    *)
(* src/src/auth/oauth.js.                                                  *)
(*                                                                         *)
(* Conventions.  JavaScript values are integers: Null stands for null and  *)
(* undefined (JSON.stringify drops undefined, so both read back absent),   *)
(* 0 for the other falsy values (0, ""), account ids (randomUUID) are      *)
(* 1, 2, ... in the order they are drawn, refresh and access tokens are    *)
(* positive numbers, names are the codes given by AccountName and the      *)
(* Name* definitions, times are milliseconds.  An object's keys are kept   *)
(* in insertion order, as Object.keys / Object.values give them for        *)
(* non-index string keys: data.accounts is a sequence of account records.  *)
(***************************************************************************)
EXTENDS Integers, Sequences, FiniteSets, TLC

VARIABLES
    accountsFile,   \* ~/.qwen-proxy/accounts.json: [exists, data]
    qwenCreds,      \* ~/.qwen/oauth_creds.json of the qwen-code CLI
    uuid,           \* the next value randomUUID() returns
    now,            \* Date.now()
    req,            \* the server's chat-completion requests, by slot
    cli,            \* the CLI process: its command, position and locals
    routingStrategy,\* ROUTING_STRATEGY of the server process
    served,         \* accounts that served the requests observed so far
    succeeded,      \* the requests that ended in a 2xx response, whole
    stream,         \* the streaming loop of one chat completion
    flow,           \* one run of performDeviceAuthFlow
    resolved,       \* one call of resolveBaseUrl: its argument and result
    forwarded,      \* the upstream request built for given credentials
    listing         \* the active accounts as the CLI and GET /status count them

vars == <<accountsFile, qwenCreds, uuid, now, req, cli, routingStrategy, served, succeeded, stream, flow, resolved, forwarded, listing>>

-----------------------------------------------------------------------------
(* Bounds of the model *)

\* SpecCrud: accounts in the store at once, and ids drawn in all
MaxAccounts == 3
MaxUuid == 4
\* SpecSelect and SpecRoundRobin: accounts in the store, and clock steps
MaxSelectAccounts == 2
MaxTicks == 2

\* Spec: requests answered with a 2xx status, and clock steps
MaxRaceRequests == 1
MaxRaceTicks == 1

\* SpecServe and SpecCli: requests answered with a 2xx status
MaxRequests == 2

\* SpecCli: accounts in the store and ids given out
MaxCliAccounts == 2

\* SpecBalance and SpecStarve: requests answered with a 2xx status
MaxBalanceRequests == 2
MaxStarveRequests == 3

\* SpecStore: accounts in the store, and requests answered with a 2xx status
MaxStoreAccounts == 2
MaxStoreRequests == 1
MaxRefreshRequests == 2
MaxListAccounts == 2

-----------------------------------------------------------------------------
(* Values *)

Null == -1

TOKEN_REFRESH_BUFFER_MS == 30000

\* JavaScript's falsy test, as in `!x` and `x || y`.
Falsy(x) == x = Null \/ x = 0

Or(x, y) == IF Falsy(x) THEN y ELSE x

NameDefault == 100
AccountName(k) == 100 + k
NameWork == 200

\* The clock moves in steps of half the refresh buffer, so that an expiry
\* date can lie before, at and after now + TOKEN_REFRESH_BUFFER_MS.
ClockStep == TOKEN_REFRESH_BUFFER_MS \div 2

EmptyStore == [accounts |-> <<>>, defaultAccountId |-> Null]

\* accounts.json before anything wrote it
NoFile == [exists |-> FALSE, data |-> EmptyStore]

Keys(data) == {data.accounts[i].id : i \in DOMAIN data.accounts}

Has(data, accountId) == accountId \in Keys(data)

IndexOf(data, accountId) ==
    CHOOSE i \in DOMAIN data.accounts : data.accounts[i].id = accountId

Account(data, accountId) == data.accounts[IndexOf(data, accountId)]

\* delete data.accounts[accountId]: the other keys keep their order.
Delete(data, accountId) ==
    [data EXCEPT !.accounts =
        SelectSeq(data.accounts, LAMBDA a : a.id # accountId)]

\* data.accounts[accountId] = account, for a key that is new.
Insert(data, account) ==
    [data EXCEPT !.accounts = Append(data.accounts, account)]

NewAccount(accountId, name, credentials) ==
    [id |-> accountId,
     name |-> name,
     credentials |-> credentials,
     lastUsed |-> Null,
     requestCount |-> 0,
     enabled |-> TRUE]

-----------------------------------------------------------------------------
(* manager.js: the store *)

SaveAccounts(data) == [exists |-> TRUE, data |-> data]

MigratedStore(u) ==
    [accounts |-> <<NewAccount(u, NameDefault,
                       [accessToken |-> qwenCreds.access_token,
                        refreshToken |-> qwenCreds.refresh_token,
                        resourceUrl |-> qwenCreds.resource_url,
                        expiryDate |-> qwenCreds.expiry_date])>>,
     defaultAccountId |-> u]

\* migrateFromQwenCode() returns true
Migrates(f) ==
    ~f.exists /\ qwenCreds.exists /\ ~Falsy(qwenCreds.access_token)

\* loadAccounts(): what it returns (data) and what it leaves behind (the
\* file, written when the qwen-code credentials are migrated, and uuid).
LoadAccounts(f, u) ==
    IF f.exists THEN [data |-> f.data, file |-> f, uuid |-> u]
    ELSE IF Migrates(f)
         THEN [data |-> MigratedStore(u),
               file |-> SaveAccounts(MigratedStore(u)),
               uuid |-> u + 1]
         ELSE [data |-> EmptyStore, file |-> f, uuid |-> u]

\* addAccount(name, credentials) on the loaded data, with the id drawn.
AddAccountData(data, accountId, name, credentials) ==
    LET named == Or(name, AccountName(Len(data.accounts) + 1))
        added == Insert(data, NewAccount(accountId, named, credentials))
    IN  IF Falsy(data.defaultAccountId)
        THEN [added EXCEPT !.defaultAccountId = accountId]
        ELSE added

\* The key removeAccount makes the default: Object.keys(data.accounts)[0]
NewDefault(remaining) ==
    IF Len(remaining) > 0 THEN remaining[1].id ELSE Null

RemoveAccountDataKeepsDefault(data, accountId) == Delete(data, accountId)

\* removeAccount(accountId) on the loaded data, the account being there.
RemoveAccountData(data, accountId) ==
    LET removed == Delete(data, accountId)
    IN  IF data.defaultAccountId = accountId
        THEN [removed EXCEPT !.defaultAccountId = NewDefault(removed.accounts)]
        ELSE removed

SetDefaultData(data, accountId) == [data EXCEPT !.defaultAccountId = accountId]

ToggleData(data, accountId, enabled) ==
    [data EXCEPT !.accounts[IndexOf(data, accountId)].enabled = enabled]

RenameData(data, accountId, newName) ==
    [data EXCEPT !.accounts[IndexOf(data, accountId)].name = newName]

\* { ...old, ...credentials }: every key of `credentials` is an own property
\* (refreshAccessToken's literal sets all of them), so each one overrides.
MergeCredentials(old, credentials) ==
    [k \in DOMAIN old |-> IF k \in DOMAIN credentials THEN credentials[k] ELSE old[k]]

UpdateCredentialsData(data, accountId, credentials) ==
    [data EXCEPT !.accounts[IndexOf(data, accountId)].credentials =
        MergeCredentials(@, credentials)]

UpdateAccountStatsData(data, accountId, t) ==
    [data EXCEPT !.accounts[IndexOf(data, accountId)] =
        [@ EXCEPT !.lastUsed = t,
                  !.requestCount = Or(@, 0) + 1]]

\* What a manager.js operation leaves behind: ok (it saved `data`) or not
\* (the account was missing, it threw or returned before the save).
Saved(l, data) == [ok |-> TRUE, file |-> SaveAccounts(data), uuid |-> l.uuid]

NotFound(l) == [ok |-> FALSE, file |-> l.file, uuid |-> l.uuid]

RemoveAccountResult(f, u, accountId) ==
    LET l == LoadAccounts(f, u)
    IN  IF Has(l.data, accountId)
        THEN Saved(l, RemoveAccountData(l.data, accountId))
        ELSE NotFound(l)

SetDefaultAccountResult(f, u, accountId) ==
    LET l == LoadAccounts(f, u)
    IN  IF Has(l.data, accountId)
        THEN Saved(l, SetDefaultData(l.data, accountId))
        ELSE NotFound(l)

ToggleAccountResult(f, u, accountId, enabled) ==
    LET l == LoadAccounts(f, u)
    IN  IF Has(l.data, accountId)
        THEN Saved(l, ToggleData(l.data, accountId, enabled))
        ELSE NotFound(l)

UpdateCredentialsResult(f, u, accountId, credentials) ==
    LET l == LoadAccounts(f, u)
    IN  IF Has(l.data, accountId)
        THEN Saved(l, UpdateCredentialsData(l.data, accountId, credentials))
        ELSE NotFound(l)

UpdateAccountStatsResult(f, u, accountId, t) ==
    LET l == LoadAccounts(f, u)
    IN  IF Has(l.data, accountId)
        THEN Saved(l, UpdateAccountStatsData(l.data, accountId, t))
        ELSE NotFound(l)

-----------------------------------------------------------------------------
(* cli.js: the account commands' view of the store *)

\* loadAccountsData(): no migration, a missing file reads as empty.
LoadAccountsData(f) == IF f.exists THEN f.data ELSE EmptyStore

\* "Find account by ID or name": the id the key stands for, or Null.
FindAccount(data, key) ==
    IF Has(data, key) THEN key
    ELSE IF \E i \in DOMAIN data.accounts : data.accounts[i].name = key
         THEN LET first == CHOOSE i \in DOMAIN data.accounts :
                               /\ data.accounts[i].name = key
                               /\ \A j \in 1..(i - 1) : data.accounts[j].name # key
              IN  data.accounts[first].id
         ELSE Null

\* logoutAccount on the data it loaded, once the account is found.
LogoutData(data, accountId) ==
    LET removed == Delete(data, accountId)
    IN  IF data.defaultAccountId = accountId
        THEN [removed EXCEPT !.defaultAccountId =
                 IF Len(removed.accounts) > 0 THEN removed.accounts[1].id ELSE Null]
        ELSE removed

-----------------------------------------------------------------------------
(* The processes *)

NoCredentials ==
    [accessToken |-> Null, refreshToken |-> Null,
     resourceUrl |-> Null, expiryDate |-> Null]

\* What the token endpoint answers to a refresh.
RefreshFails ==
    [ok |-> FALSE, access_token |-> Null, refresh_token |-> Null,
     resource_url |-> Null, expires_in |-> 0]

TokenResponse(refresh_token, expires_in) ==
    [ok |-> TRUE, access_token |-> 2, refresh_token |-> refresh_token,
     resource_url |-> Null, expires_in |-> expires_in]

\* No answer read yet.
NoResponse ==
    [ok |-> FALSE, access_token |-> Null, refresh_token |-> Null,
     resource_url |-> Null, expires_in |-> Null]

\* A request slot of the server: where handleChatCompletions stands (pc),
\* what JSON.parse made of the body (parsed: "unread", "invalid", "json"),
\* its locals (account, credentials, isStreaming; refreshToken and response
\* are the argument and the fetch result of the refreshAccessToken call in
\* flight; upstream is the status of the upstream's answer), the fetches it
\* has made (tokenCalls, chatCalls), the calls of res.writeHead and res.end
\* that went through (writeHead, ended) and what they sent: the status, the
\* body ("error" is JSON {error: <string>} with the string in `error`,
\* "json" another JSON document the server built, "upstream" the bytes of
\* the upstream's body as they came).
ReqIdle ==
    [pc |-> "idle", parsed |-> "unread",
     account |-> Null, refreshToken |-> Null,
     response |-> NoResponse, credentials |-> NoCredentials,
     isStreaming |-> FALSE, upstream |-> Null,
     tokenCalls |-> 0, chatCalls |-> 0,
     writeHead |-> 0, ended |-> 0,
     status |-> Null, body |-> "none", error |-> "none"]

\* The CLI process: the command it runs (pc) and its locals.
Idle ==
    [pc |-> "idle", data |-> EmptyStore, accountId |-> Null, name |-> Null]

Requests == {1, 2}

\* No response is being streamed, no device flow runs, no URL is resolved.
NoStream == [pc |-> "none"]

NoFlow == [pc |-> "none"]

Unresolved == [pc |-> "none"]

\* No upstream request is being built, no account list is being made.
NotForwarded == [pc |-> "none"]

NotListed == [pc |-> "none"]

\* The store as the next reader finds it.
Store == LoadAccountsData(accountsFile)

\* Every account id that can be drawn, and one that never is.
KnownIds == 1..(MaxUuid + 1)

\* The store has room for one more account, under a bound.
Room(maxAccounts, maxUuid) ==
    /\ Len(Store.accounts) < maxAccounts
    /\ uuid <= maxUuid - (IF Migrates(accountsFile) THEN 1 ELSE 0)

-----------------------------------------------------------------------------
(* manager.js: the operations as steps *)

AddAccount(name, credentials) ==
    LET l == LoadAccounts(accountsFile, uuid)
    IN  /\ accountsFile' = SaveAccounts(
               AddAccountData(l.data, l.uuid, name, credentials))
        /\ uuid' = l.uuid + 1
        /\ UNCHANGED <<qwenCreds, now, req, cli, routingStrategy, served, succeeded, stream, flow, resolved, forwarded, listing>>

RemoveAccount(accountId) ==
    LET s == RemoveAccountResult(accountsFile, uuid, accountId)
    IN  /\ accountsFile' = s.file
        /\ uuid' = s.uuid
        /\ UNCHANGED <<qwenCreds, now, req, cli, routingStrategy, served, succeeded, stream, flow, resolved, forwarded, listing>>

SetDefaultAccount(accountId) ==
    LET s == SetDefaultAccountResult(accountsFile, uuid, accountId)
    IN  /\ accountsFile' = s.file
        /\ uuid' = s.uuid
        /\ UNCHANGED <<qwenCreds, now, req, cli, routingStrategy, served, succeeded, stream, flow, resolved, forwarded, listing>>

ToggleAccount(accountId, enabled) ==
    LET s == ToggleAccountResult(accountsFile, uuid, accountId, enabled)
    IN  /\ accountsFile' = s.file
        /\ uuid' = s.uuid
        /\ UNCHANGED <<qwenCreds, now, req, cli, routingStrategy, served, succeeded, stream, flow, resolved, forwarded, listing>>

-----------------------------------------------------------------------------
(* cli.js: the synchronous account commands as steps *)

LogoutAccount(key) ==
    LET data == LoadAccountsData(accountsFile)
        accountId == FindAccount(data, key)
    IN  /\ cli = Idle
        /\ IF accountId = Null
           THEN UNCHANGED accountsFile
           ELSE accountsFile' = SaveAccounts(LogoutData(data, accountId))
        /\ UNCHANGED <<qwenCreds, uuid, now, req, cli, routingStrategy, served, succeeded, stream, flow, resolved, forwarded, listing>>

CliSetDefaultAccount(key) ==
    LET data == LoadAccountsData(accountsFile)
        accountId == FindAccount(data, key)
    IN  /\ cli = Idle
        /\ IF accountId = Null
           THEN UNCHANGED accountsFile
           ELSE accountsFile' = SaveAccounts(SetDefaultData(data, accountId))
        /\ UNCHANGED <<qwenCreds, uuid, now, req, cli, routingStrategy, served, succeeded, stream, flow, resolved, forwarded, listing>>

CliToggleAccount(key, enabled) ==
    LET data == LoadAccountsData(accountsFile)
        accountId == FindAccount(data, key)
    IN  /\ cli = Idle
        /\ IF accountId = Null
           THEN UNCHANGED accountsFile
           ELSE accountsFile' = SaveAccounts(ToggleData(data, accountId, enabled))
        /\ UNCHANGED <<qwenCreds, uuid, now, req, cli, routingStrategy, served, succeeded, stream, flow, resolved, forwarded, listing>>

RenameAccount(key, newName) ==
    LET data == LoadAccountsData(accountsFile)
        accountId == FindAccount(data, key)
    IN  /\ cli = Idle
        /\ IF accountId = Null
           THEN UNCHANGED accountsFile
           ELSE accountsFile' = SaveAccounts(RenameData(data, accountId, newName))
        /\ UNCHANGED <<qwenCreds, uuid, now, req, cli, routingStrategy, served, succeeded, stream, flow, resolved, forwarded, listing>>

-----------------------------------------------------------------------------
(* manager.js: validity and routing *)

\* isTokenValid(credentials) when Date.now() is t
IsTokenValid(credentials, t) ==
    /\ ~Falsy(credentials.expiryDate)
    /\ ~Falsy(credentials.accessToken)
    /\ t < credentials.expiryDate - TOKEN_REFRESH_BUFFER_MS

\* (a.lastUsed || 0), the key the comparator subtracts
LastUsedKey(a) == Or(a.lastUsed, 0)

\* One step of a stable sort: `a`, which came after every element of
\* `sorted` in the array, goes behind the elements whose key is not larger.
InsertSorted(sorted, a) ==
    LET k == Cardinality({i \in DOMAIN sorted :
                             LastUsedKey(sorted[i]) <= LastUsedKey(a)})
    IN  SubSeq(sorted, 1, k) \o <<a>> \o SubSeq(sorted, k + 1, Len(sorted))

\* enabledAccounts.sort((a, b) => (a.lastUsed || 0) - (b.lastUsed || 0));
\* Array.prototype.sort is stable.
RECURSIVE SortByLastUsed(_)
SortByLastUsed(accounts) ==
    IF accounts = <<>> THEN <<>>
    ELSE InsertSorted(SortByLastUsed(SubSeq(accounts, 1, Len(accounts) - 1)),
                      accounts[Len(accounts)])

\* The filter of getNextAvailableAccount's first pass
EnabledAndValid(a, t) == a.enabled /\ IsTokenValid(a.credentials, t)

RefreshableIgnoringEnabled(a) == ~Falsy(a.credentials.refreshToken)

\* The filter of its second pass
Refreshable(a) == a.enabled /\ ~Falsy(a.credentials.refreshToken)

SortByLastUsedSkipped(accounts) == accounts

\* enabledAccounts.sort(...), as getNextAvailableAccount calls it
SortEnabledAccounts(accounts) == SortByLastUsed(accounts)

\* getNextAvailableAccount() on the loaded data: the id of the account it
\* returns, or Null.
GetNextAvailableAccount(data, t) ==
    LET enabledAccounts == SelectSeq(data.accounts, LAMBDA a : EnabledAndValid(a, t))
        refreshableAccounts == SelectSeq(data.accounts, Refreshable)
    IN  IF Len(enabledAccounts) = 0
        THEN IF Len(refreshableAccounts) > 0
             THEN refreshableAccounts[1].id
             ELSE Null
        ELSE SortEnabledAccounts(enabledAccounts)[1].id

\* getDefaultAccount() on the loaded data
GetDefaultAccount(data) ==
    IF Falsy(data.defaultAccountId) THEN Null
    ELSE IF Has(data, data.defaultAccountId) THEN data.defaultAccountId
    ELSE Null

\* getAccountForRequest(strategy) on the loaded data
GetAccountForRequest(data, strategy, t) ==
    IF strategy \in {"round-robin", "load-balance"}
    THEN GetNextAvailableAccount(data, t)
    ELSE GetDefaultAccount(data)

\* The credentials refreshAccessToken(refreshToken) returns for the token
\* endpoint's 2xx answer `response`, when Date.now() is t.
RefreshedCredentialsDropsToken(refreshToken, response, t) ==
    [accessToken |-> response.access_token,
     refreshToken |-> response.refresh_token,
     resourceUrl |-> response.resource_url,
     expiryDate |-> t + response.expires_in * 1000]

\* The credentials refreshAccessToken returns (lines 346-353)
RefreshedCredentials(refreshToken, response, t) ==
    [accessToken |-> response.access_token,
     refreshToken |-> Or(response.refresh_token, refreshToken),
     resourceUrl |-> response.resource_url,
     expiryDate |-> t + response.expires_in * 1000]

-----------------------------------------------------------------------------
(* server.js: handleChatCompletions, one step per stretch between awaits *)

\* res.writeHead(status, ...) and res.end(body): the locals but `account`
\* are dead.
Respond(r, status, body, error) ==
    [ReqIdle EXCEPT !.pc = "responded", !.account = req[r].account,
                    !.parsed = req[r].parsed,
                    !.isStreaming = req[r].isStreaming,
                    !.upstream = req[r].upstream,
                    !.tokenCalls = req[r].tokenCalls,
                    !.chatCalls = req[r].chatCalls,
                    !.writeHead = req[r].writeHead + 1,
                    !.ended = req[r].ended + 1,
                    !.status = status, !.body = body, !.error = error]

\* res.end(JSON.stringify({ error }))
Responded(r, status, error) == Respond(r, status, "error", error)

\* The bodies a client posts: one that does not parse, and JSON with or
\* without stream: true.
RequestBodies == [parses : BOOLEAN, stream : BOOLEAN] \ {[parses |-> FALSE, stream |-> TRUE]}

ChatRouteBranchSelectsFirst(requestBody, account) ==
    IF account = Null THEN "No accounts configured"
    ELSE IF ~requestBody.parses THEN "Invalid JSON body"
    ELSE "selected"

\* Lines 121-140: the error handleChatCompletions answers before it asks
\* for credentials, or "selected".
ChatRouteBranch(requestBody, account) ==
    IF ~requestBody.parses THEN "Invalid JSON body"
    ELSE IF account = Null THEN "No accounts configured"
    ELSE "selected"

\* The body is read and parsed and the account is picked (lines 115-140).
ChatRoute(r, requestBody) ==
    LET l == LoadAccounts(accountsFile, uuid)
        account == GetAccountForRequest(l.data, routingStrategy, now)
        branch == ChatRouteBranch(requestBody, account)
    IN  /\ req[r].pc = "idle"
        /\ IF ~requestBody.parses
           THEN UNCHANGED <<accountsFile, uuid>>
           ELSE /\ accountsFile' = l.file
                /\ uuid' = l.uuid
        /\ req' = [req EXCEPT ![r] =
              LET parsed == IF requestBody.parses THEN "json" ELSE "invalid"
              IN  IF branch = "selected"
                  THEN [req[r] EXCEPT !.pc = "selected", !.parsed = parsed,
                                      !.account = account,
                                      !.isStreaming = requestBody.stream]
                  ELSE [Responded(r, IF branch = "Invalid JSON body" THEN 400 ELSE 401,
                                  branch) EXCEPT !.parsed = parsed]]
        /\ UNCHANGED <<qwenCreds, now, cli, routingStrategy, served, succeeded, stream, flow, resolved, forwarded, listing>>

\* The client goes away while the body is read: `for await (chunk of req)`
\* throws, handleRequest catches (lines 117, 304-308).
RequestAborted(r) ==
    /\ req[r].pc = "idle"
    /\ req' = [req EXCEPT ![r] = Responded(r, 500, "Internal server error")]
    /\ UNCHANGED <<accountsFile, qwenCreds, uuid, now, cli, routingStrategy, served, succeeded, stream, flow, resolved, forwarded, listing>>

GetValidCredentialsIgnoringEnabled(data, accountId, t) ==
    LET account == Account(data, accountId)
    IN  IF ~Has(data, accountId) THEN "Account not found"
        ELSE IF IsTokenValid(account.credentials, t) THEN "return"
        ELSE IF Falsy(account.credentials.refreshToken)
        THEN "Token expired and no refresh token available."
        ELSE "refresh"

GetValidCredentialsReturnsExpired(data, accountId, t) ==
    LET account == Account(data, accountId)
    IN  IF ~Has(data, accountId) THEN "Account not found"
        ELSE IF ~account.enabled THEN "Account is disabled"
        ELSE IF IsTokenValid(account.credentials, t) THEN "return"
        ELSE IF Falsy(account.credentials.refreshToken) THEN "return"
        ELSE "refresh"

\* The branch getValidCredentials takes on the account it loaded: the
\* message of the error it throws, "return" or "refresh" (lines 360-376).
GetValidCredentialsBranch(data, accountId, t) ==
    LET account == Account(data, accountId)
    IN  IF ~Has(data, accountId) THEN "Account not found"
        ELSE IF ~account.enabled THEN "Account is disabled"
        ELSE IF IsTokenValid(account.credentials, t) THEN "return"
        ELSE IF Falsy(account.credentials.refreshToken)
        THEN "Token expired and no refresh token available."
        ELSE "refresh"

\* getValidCredentials returned `credentials`: the request is forwarded
\* (server.js lines 153-170).
Forward(r, credentials) ==
    [req[r] EXCEPT !.pc = "upstream", !.credentials = credentials,
                   !.chatCalls = @ + 1]

\* getValidCredentials(account.id) up to its return, its throw or the
\* fetch of refreshAccessToken (manager.js lines 359-379).
GetValidCredentials(r) ==
    LET l == LoadAccounts(accountsFile, uuid)
        accountId == req[r].account
        branch == GetValidCredentialsBranch(l.data, accountId, now)
    IN  /\ req[r].pc = "selected"
        /\ accountsFile' = l.file
        /\ uuid' = l.uuid
        /\ req' = [req EXCEPT ![r] =
              IF branch = "return"
              THEN Forward(r, Account(l.data, accountId).credentials)
              ELSE IF branch = "refresh"
              THEN [req[r] EXCEPT !.pc = "refreshing",
                       !.tokenCalls = @ + 1,
                       !.refreshToken =
                           Account(l.data, accountId).credentials.refreshToken]
              ELSE Responded(r, 401, branch)]
        /\ UNCHANGED <<qwenCreds, now, cli, routingStrategy, served, succeeded, stream, flow, resolved, forwarded, listing>>

\* The token endpoint answers the fetch of refreshAccessToken, or the fetch
\* fails: it throws on a failure and on a status that is not ok, and reads
\* the body otherwise (lines 327-344).
RefreshResponse(r, response) ==
    /\ req[r].pc = "refreshing"
    /\ req' = [req EXCEPT ![r] =
          IF ~response.ok
          THEN Responded(r, 401, "Token refresh failed")
          ELSE [req[r] EXCEPT !.pc = "json", !.response = response]]
    /\ UNCHANGED <<accountsFile, qwenCreds, uuid, now, cli, routingStrategy, served, succeeded, stream, flow, resolved, forwarded, listing>>

\* The body is read: refreshAccessToken returns the credentials, then
\* updateCredentials and the return (lines 344-353, 380-384).
RefreshJson(r) ==
    LET credentials == RefreshedCredentials(req[r].refreshToken, req[r].response, now)
        s == UpdateCredentialsResult(accountsFile, uuid, req[r].account, credentials)
    IN  /\ req[r].pc = "json"
        /\ accountsFile' = s.file
        /\ uuid' = s.uuid
        /\ req' = [req EXCEPT ![r] =
              IF s.ok
              THEN Forward(r, credentials)
              ELSE Responded(r, 401, "Account not found")]
        /\ UNCHANGED <<qwenCreds, now, cli, routingStrategy, served, succeeded, stream, flow, resolved, forwarded, listing>>

EnabledValidIds(data, t) ==
    {data.accounts[i].id : i \in {j \in DOMAIN data.accounts :
                                     EnabledAndValid(data.accounts[j], t)}}

\* The upstream has answered with `status` and its body is awaited: the
\* error text of a non-2xx answer (line 175), the chunks of a streaming
\* request, whose status line is written first (lines 188-194), or the
\* whole text (line 201).
AwaitBody(r, status) ==
    LET streams == status < 300 /\ req[r].isStreaming
    IN  [req[r] EXCEPT !.pc = "body", !.upstream = status,
                       !.writeHead = IF streams THEN @ + 1 ELSE @,
                       !.status = IF streams THEN 200 ELSE @]

UpstreamResponseCountsErrors(r, status) ==
    LET s == UpdateAccountStatsResult(accountsFile, uuid, req[r].account, now)
    IN  /\ req[r].pc = "upstream"
        /\ IF status = 0
           THEN /\ req' = [req EXCEPT ![r] = Responded(r, 502, "Proxy error")]
                /\ UNCHANGED <<accountsFile, uuid, served>>
           ELSE /\ accountsFile' = s.file
                /\ uuid' = s.uuid
                /\ req' = [req EXCEPT ![r] = AwaitBody(r, status)]
                /\ served' = Append(served, req[r].account)
        /\ UNCHANGED <<qwenCreds, now, cli, routingStrategy, succeeded, stream, flow, resolved, forwarded, listing>>

UpstreamResponseRetries(r, status) ==
    LET s == UpdateAccountStatsResult(accountsFile, uuid, req[r].account, now)
    IN  /\ req[r].pc = "upstream"
        /\ IF status = 0
           THEN /\ req' = [req EXCEPT ![r] = Forward(r, req[r].credentials)]
                /\ UNCHANGED <<accountsFile, uuid, served>>
           ELSE IF status >= 300
           THEN /\ req' = [req EXCEPT ![r] = AwaitBody(r, status)]
                /\ UNCHANGED <<accountsFile, uuid, served>>
           ELSE /\ accountsFile' = s.file
                /\ uuid' = s.uuid
                /\ req' = [req EXCEPT ![r] = AwaitBody(r, status)]
                /\ served' = Append(served, req[r].account)
        /\ UNCHANGED <<qwenCreds, now, cli, routingStrategy, succeeded, stream, flow, resolved, forwarded, listing>>

\* The upstream answers the forwarded request (lines 165-192): a network
\* failure (status 0), a non-2xx status, or a 2xx status, after which the
\* usage is recorded.
UpstreamResponse(r, status) ==
    LET s == UpdateAccountStatsResult(accountsFile, uuid, req[r].account, now)
    IN  /\ req[r].pc = "upstream"
        /\ IF status = 0
           THEN /\ req' = [req EXCEPT ![r] = Responded(r, 502, "Proxy error")]
                /\ UNCHANGED <<accountsFile, uuid, served>>
           ELSE IF status >= 300
           THEN /\ req' = [req EXCEPT ![r] = AwaitBody(r, status)]
                /\ UNCHANGED <<accountsFile, uuid, served>>
           ELSE /\ accountsFile' = s.file
                /\ uuid' = s.uuid
                /\ req' = [req EXCEPT ![r] = AwaitBody(r, status)]
                /\ served' = Append(served, req[r].account)
        /\ UNCHANGED <<qwenCreds, now, cli, routingStrategy, succeeded, stream, flow, resolved, forwarded, listing>>

\* The upstream answers 2xx and the writeFileSync of updateAccountStats
\* throws (the disk is full, the file is not writable): the catch of line
\* 205 answers.
UpdateAccountStatsThrows(r) ==
    /\ req[r].pc = "upstream"
    /\ Has(Store, req[r].account)
    /\ req' = [req EXCEPT ![r] =
          [Responded(r, 502, "Proxy error") EXCEPT !.upstream = 200]]
    /\ UNCHANGED <<accountsFile, qwenCreds, uuid, now, cli, routingStrategy, served, succeeded, stream, flow, resolved, forwarded, listing>>

\* The upstream's body has come whole, or reading it fails (lines 175-209).
\* The failure of a streaming request is caught at line 205, where
\* writeHead throws because the status line is written; handleRequest
\* catches that at line 304, where writeHead throws again: the exception
\* leaves handleRequest and the response is not ended.
UpstreamBody(r, delivered) ==
    LET streams == req[r].upstream < 300 /\ req[r].isStreaming
    IN  /\ req[r].pc = "body"
        /\ req' = [req EXCEPT ![r] =
              IF delivered
              THEN [Respond(r, req[r].upstream, "upstream", "none") EXCEPT
                       !.writeHead = IF streams THEN req[r].writeHead ELSE @]
              ELSE IF streams
              THEN [req[r] EXCEPT !.pc = "escaped"]
              ELSE Responded(r, 502, "Proxy error")]
        /\ succeeded' = IF delivered /\ req[r].upstream < 300
                        THEN Append(succeeded, [account |-> req[r].account, time |-> now])
                        ELSE succeeded
        /\ UNCHANGED <<accountsFile, qwenCreds, uuid, now, cli, routingStrategy, served, stream, flow, resolved, forwarded, listing>>

\* What handleRequest is asked for besides chat completions: a method and
\* a path (lines 278-303).
Routes ==
    {"OPTIONS", "GET /v1/models", "GET /v1/models/known", "GET /v1/models/unknown",
     "GET /status", "GET /accounts", "GET /health", "other"}

\* handleRequest on such a request: one stretch, no await that waits.
HandleRequest(r, route) ==
    LET l == LoadAccounts(accountsFile, uuid)
        loads == route \in {"GET /status", "GET /accounts"}
    IN  /\ req[r].pc = "idle"
        /\ accountsFile' = IF loads THEN l.file ELSE accountsFile
        /\ uuid' = IF loads THEN l.uuid ELSE uuid
        /\ req' = [req EXCEPT ![r] =
              IF route = "OPTIONS" THEN Respond(r, 204, "none", "none")
              ELSE IF route = "GET /v1/models/unknown"
              THEN Responded(r, 404, "Model not found")
              ELSE IF route = "other" THEN Responded(r, 404, "Not found")
              ELSE Respond(r, 200, "json", "none")]
        /\ UNCHANGED <<qwenCreds, now, cli, routingStrategy, served, succeeded, stream, flow, resolved, forwarded, listing>>

\* The response has ended; the slot takes the next request.
Finish(r) ==
    /\ req[r].pc = "responded"
    /\ req' = [req EXCEPT ![r] = ReqIdle]
    /\ UNCHANGED <<accountsFile, qwenCreds, uuid, now, cli, routingStrategy, served, succeeded, stream, flow, resolved, forwarded, listing>>

\* Time passes.
Tick ==
    /\ now' = now + ClockStep
    /\ UNCHANGED <<accountsFile, qwenCreds, uuid, req, cli, routingStrategy, served, succeeded, stream, flow, resolved, forwarded, listing>>

-----------------------------------------------------------------------------
(* cli.js: the commands that await the provider *)

\* loginAccount(name) up to the await of performDeviceAuthFlow
LoginStart(name) ==
    LET data == LoadAccountsData(accountsFile)
    IN  /\ cli = Idle
        /\ cli' = [Idle EXCEPT !.pc = "login", !.data = data,
                     !.name = Or(name, AccountName(Len(data.accounts) + 1))]
        /\ UNCHANGED <<accountsFile, qwenCreds, uuid, now, req, routingStrategy, served, succeeded, stream, flow, resolved, forwarded, listing>>

\* The account the login adds to the data it loaded before the flow.
LoginData(data, accountId, name, credentials) ==
    LET added == Insert(data, NewAccount(accountId, name, credentials))
    IN  IF Falsy(data.defaultAccountId)
        THEN [added EXCEPT !.defaultAccountId = accountId]
        ELSE added

\* performDeviceAuthFlow returned `credentials`: the account is saved.
LoginDone(credentials) ==
    /\ cli.pc = "login"
    /\ accountsFile' = SaveAccounts(LoginData(cli.data, uuid, cli.name, credentials))
    /\ uuid' = uuid + 1
    /\ cli' = Idle
    /\ UNCHANGED <<qwenCreds, now, req, routingStrategy, served, succeeded, stream, flow, resolved, forwarded, listing>>

\* performDeviceAuthFlow threw: process.exit(1)
LoginFailed ==
    /\ cli.pc = "login"
    /\ cli' = Idle
    /\ UNCHANGED <<accountsFile, qwenCreds, uuid, now, req, routingStrategy, served, succeeded, stream, flow, resolved, forwarded, listing>>

\* refreshAccount(key) up to the await of refreshAccessToken
RefreshStart(key) ==
    LET data == LoadAccountsData(accountsFile)
        accountId == FindAccount(data, key)
    IN  /\ cli = Idle
        /\ accountId # Null
        /\ ~Falsy(Account(data, accountId).credentials.refreshToken)
        /\ cli' = [Idle EXCEPT !.pc = "refresh", !.data = data, !.accountId = accountId]
        /\ UNCHANGED <<accountsFile, qwenCreds, uuid, now, req, routingStrategy, served, succeeded, stream, flow, resolved, forwarded, listing>>

\* The credentials refreshAccount writes into the data it loaded.
CliRefreshData(data, accountId, newCredentials) ==
    [data EXCEPT !.accounts[IndexOf(data, accountId)].credentials =
        [accessToken |-> newCredentials.accessToken,
         refreshToken |-> Or(newCredentials.refreshToken, @.refreshToken),
         resourceUrl |-> newCredentials.resourceUrl,
         expiryDate |-> newCredentials.expiryDate]]

\* The token endpoint answers the CLI's refresh.
RefreshDone(response) ==
    LET account == Account(cli.data, cli.accountId)
        newCredentials ==
            RefreshedCredentials(account.credentials.refreshToken, response, now)
    IN  /\ cli.pc = "refresh"
        /\ IF response.ok
           THEN accountsFile' = SaveAccounts(
                    CliRefreshData(cli.data, cli.accountId, newCredentials))
           ELSE UNCHANGED accountsFile
        /\ cli' = Idle
        /\ UNCHANGED <<qwenCreds, uuid, now, req, routingStrategy, served, succeeded, stream, flow, resolved, forwarded, listing>>

-----------------------------------------------------------------------------
(* Inputs *)

NoQwenCreds ==
    [exists |-> FALSE, access_token |-> Null, refresh_token |-> Null,
     resource_url |-> Null, expiry_date |-> Null]

\* A token set as the provider issues it at time t for expires_in seconds.
Issued(t, refreshToken, expires_in) ==
    [accessToken |-> 1,
     refreshToken |-> refreshToken,
     resourceUrl |-> Null,
     expiryDate |-> t + expires_in * 1000]

\* Keys a command can be given: an id, a name, or one that matches nothing.
Names == {NameDefault, NameWork} \cup {AccountName(k) : k \in 1..MaxAccounts}

\* A store of n accounts with ids 1..n, as a run of logins, requests and
\* account commands leaves it: account i is in the state given by f[i].
DrawnAccount(i, f) ==
    [id |-> i,
     name |-> AccountName(i),
     credentials |-> [accessToken |-> 1,
                      refreshToken |-> f.refreshToken,
                      resourceUrl |-> Null,
                      expiryDate |-> f.expiryDate],
     lastUsed |-> f.lastUsed,
     requestCount |-> IF f.lastUsed = Null THEN 0 ELSE 1,
     enabled |-> f.enabled]

DrawnStore(n, f, defaultAccountId) ==
    [accounts |-> [i \in 1..n |-> DrawnAccount(i, f[i])],
     defaultAccountId |-> defaultAccountId]

DrawnFile(n, f, defaultAccountId) ==
    IF n = 0 THEN NoFile ELSE SaveAccounts(DrawnStore(n, f, defaultAccountId))

\* The time at which the drawn stores are read: two clock steps in.
DrawnNow == 2 * ClockStep

-----------------------------------------------------------------------------
(* SpecCrud: the account operations, one after the other, from no file *)

InitCrud ==
    /\ accountsFile = NoFile
    /\ qwenCreds \in {NoQwenCreds,
                      [exists |-> TRUE, access_token |-> 1, refresh_token |-> 1,
                       resource_url |-> Null, expiry_date |-> 0]}
    /\ uuid = 1
    /\ now = ClockStep
    /\ req = [r \in Requests |-> ReqIdle]
    /\ cli = Idle
    /\ routingStrategy = "default"
    /\ served = <<>>
    /\ succeeded = <<>>
    /\ stream = NoStream
    /\ flow = NoFlow
    /\ resolved = Unresolved
    /\ forwarded = NotForwarded
    /\ listing = NotListed

NextCrud ==
    \/ /\ Room(MaxAccounts, MaxUuid)
       /\ \E name \in {Null, NameWork} : AddAccount(name, Issued(now, 1, 60))
    \/ \E accountId \in KnownIds : RemoveAccount(accountId)
    \/ \E accountId \in KnownIds : SetDefaultAccount(accountId)
    \/ \E accountId \in KnownIds, enabled \in BOOLEAN : ToggleAccount(accountId, enabled)
    \/ \E key \in KnownIds \cup Names : LogoutAccount(key)
    \/ \E key \in KnownIds \cup Names : CliSetDefaultAccount(key)
    \/ \E key \in KnownIds \cup Names, enabled \in BOOLEAN : CliToggleAccount(key, enabled)

SpecCrud == InitCrud /\ [][NextCrud]_vars

-----------------------------------------------------------------------------
(* Spec: two requests in flight on one account, whose token expires and  *)
(* is refreshed, while the CLI disables, enables or removes the account  *)

AccountStates ==
    [enabled : BOOLEAN,
     refreshToken : {Null, 1},
     expiryDate : {DrawnNow + TOKEN_REFRESH_BUFFER_MS,
                   DrawnNow + TOKEN_REFRESH_BUFFER_MS + ClockStep},
     lastUsed : {Null}]

\* The answers of the token endpoint: a failure, or a token set with or
\* without a new refresh token, for 30 or 60 seconds.
Responses ==
    {RefreshFails} \cup
    {TokenResponse(refresh_token, expires_in) :
        refresh_token \in {Null, 2}, expires_in \in {30, 60}}

Init ==
    /\ \E f \in [1..1 -> AccountStates] : accountsFile = DrawnFile(1, f, 1)
    /\ uuid = 2
    /\ qwenCreds = NoQwenCreds
    /\ now = DrawnNow
    /\ req = [r \in Requests |-> ReqIdle]
    /\ cli = Idle
    /\ routingStrategy \in {"default", "round-robin"}
    /\ served = <<>>
    /\ succeeded = <<>>
    /\ stream = NoStream
    /\ flow = NoFlow
    /\ resolved = Unresolved
    /\ forwarded = NotForwarded
    /\ listing = NotListed

Clock ==
    /\ now < DrawnNow + MaxTicks * ClockStep
    /\ Tick

\* The requests of Spec post JSON without stream: true, and the body of
\* the upstream's answer arrives.
NonStreaming == [parses |-> TRUE, stream |-> FALSE]

Request(r) ==
    \/ /\ Len(served) < MaxRaceRequests
       /\ ChatRoute(r, NonStreaming)
    \/ GetValidCredentials(r)
    \/ \E response \in Responses : RefreshResponse(r, response)
    \/ RefreshJson(r)
    \/ \E status \in {0, 200, 500} : UpstreamResponse(r, status)
    \/ UpstreamBody(r, TRUE)
    \/ Finish(r)

Next ==
    \/ \E r \in Requests : Request(r)
    \/ \E enabled \in BOOLEAN : CliToggleAccount(1, enabled)
    \/ LogoutAccount(1)
    \/ /\ now < DrawnNow + MaxRaceTicks * ClockStep
       /\ Tick

Spec == Init /\ [][Next]_vars

-----------------------------------------------------------------------------
(* SpecServe: one request at a time, with everything a client, the token *)
(* endpoint, the upstream and the file system can do to it, while the    *)
(* CLI disables, enables or removes the account                          *)

\* No exception has left handleRequest: the process is alive.
Serving == \A r \in Requests : req[r].pc # "escaped"

HandleChatCompletions(r) ==
    \/ /\ Len(served) < MaxRequests
       /\ \E requestBody \in RequestBodies : ChatRoute(r, requestBody)
    \/ GetValidCredentials(r)
    \/ \E response \in Responses : RefreshResponse(r, response)
    \/ RefreshJson(r)
    \/ \E status \in {0, 200, 500} : UpstreamResponse(r, status)
    \/ UpdateAccountStatsThrows(r)
    \/ \E delivered \in BOOLEAN : UpstreamBody(r, delivered)
    \/ RequestAborted(r)
    \/ Finish(r)

InitServe ==
    /\ \E f \in [1..1 -> AccountStates] : accountsFile = DrawnFile(1, f, 1)
    /\ uuid = 2
    /\ qwenCreds = NoQwenCreds
    /\ now = DrawnNow
    /\ req = [r \in Requests |-> ReqIdle]
    /\ cli = Idle
    /\ routingStrategy \in {"default", "round-robin"}
    /\ served = <<>>
    /\ succeeded = <<>>
    /\ stream = NoStream
    /\ flow = NoFlow
    /\ resolved = Unresolved
    /\ forwarded = NotForwarded
    /\ listing = NotListed

NextServe ==
    \/ Serving /\ HandleChatCompletions(1)
    \/ Serving /\ \E route \in Routes : HandleRequest(1, route)
    \/ \E enabled \in BOOLEAN : CliToggleAccount(1, enabled)
    \/ LogoutAccount(1)
    \/ Clock

SpecServe == InitServe /\ [][NextServe]_vars

-----------------------------------------------------------------------------
(* SpecCli: the CLI logs accounts in and refreshes them while the server *)
(* serves requests on the same accounts file                             *)

InitCli ==
    /\ \E f \in [1..1 -> AccountStates] :
          /\ f[1].enabled
          /\ f[1].refreshToken = 1
          /\ accountsFile = DrawnFile(1, f, 1)
    /\ uuid = 2
    /\ qwenCreds = NoQwenCreds
    /\ now = DrawnNow
    /\ req = [r \in Requests |-> ReqIdle]
    /\ cli = Idle
    /\ routingStrategy \in {"default", "round-robin"}
    /\ served = <<>>
    /\ succeeded = <<>>
    /\ stream = NoStream
    /\ flow = NoFlow
    /\ resolved = Unresolved
    /\ forwarded = NotForwarded
    /\ listing = NotListed

NextCli ==
    \/ Serving /\ HandleChatCompletions(1)
    \/ /\ Room(MaxCliAccounts, MaxCliAccounts)
       /\ \E name \in {Null, NameWork} : LoginStart(name)
    \/ LoginDone(Issued(now, 1, 60))
    \/ LoginFailed
    \/ \E key \in 1..MaxCliAccounts : RefreshStart(key)
    \/ \E response \in Responses : RefreshDone(response)
    \/ \E enabled \in BOOLEAN : CliToggleAccount(1, enabled)

SpecCli == InitCli /\ [][NextCli]_vars

-----------------------------------------------------------------------------
(* SpecSelect: getAccountForRequest on every store of a few accounts *)

SelectStates ==
    [enabled : BOOLEAN,
     refreshToken : {Null, 1},
     expiryDate : {DrawnNow + TOKEN_REFRESH_BUFFER_MS,
                   DrawnNow + TOKEN_REFRESH_BUFFER_MS + ClockStep},
     lastUsed : {Null, ClockStep, DrawnNow}]

InitSelect ==
    /\ \E n \in 0..MaxSelectAccounts :
         \E f \in [1..n -> SelectStates] :
           \E d \in (IF n = 0 THEN {Null} ELSE 1..n) :
              /\ accountsFile = DrawnFile(n, f, d)
              /\ uuid = n + 1
    /\ qwenCreds = NoQwenCreds
    /\ now = DrawnNow
    /\ req = [r \in Requests |-> ReqIdle]
    /\ cli = Idle
    /\ routingStrategy \in {"default", "round-robin", "load-balance"}
    /\ served = <<>>
    /\ succeeded = <<>>
    /\ stream = NoStream
    /\ flow = NoFlow
    /\ resolved = Unresolved
    /\ forwarded = NotForwarded
    /\ listing = NotListed

NextSelect ==
    \E requestBody \in RequestBodies : requestBody.parses /\ ChatRoute(1, requestBody)

SpecSelect == InitSelect /\ [][NextSelect]_vars

-----------------------------------------------------------------------------
(* SpecRoundRobin: requests served one after the other under round-robin, *)
(* every account enabled and valid throughout, nothing else changing      *)

RoundRobinStates ==
    [enabled : {TRUE},
     refreshToken : {1},
     expiryDate : {DrawnNow + TOKEN_REFRESH_BUFFER_MS + (MaxTicks + 1) * ClockStep},
     lastUsed : {Null, ClockStep, DrawnNow}]

InitRoundRobin ==
    /\ \E n \in 1..MaxSelectAccounts :
         \E f \in [1..n -> RoundRobinStates] :
              /\ accountsFile = DrawnFile(n, f, 1)
              /\ uuid = n + 1
    /\ qwenCreds = NoQwenCreds
    /\ now = DrawnNow
    /\ req = [r \in Requests |-> ReqIdle]
    /\ cli = Idle
    /\ routingStrategy = "round-robin"
    /\ served = <<>>
    /\ succeeded = <<>>
    /\ stream = NoStream
    /\ flow = NoFlow
    /\ resolved = Unresolved
    /\ forwarded = NotForwarded
    /\ listing = NotListed

NextRoundRobin ==
    \/ /\ Len(served) <= Len(Store.accounts)
       /\ \E requestBody \in RequestBodies : requestBody.parses /\ ChatRoute(1, requestBody)
    \/ GetValidCredentials(1)
    \/ UpstreamResponse(1, 200)
    \/ UpstreamBody(1, TRUE)
    \/ Finish(1)
    \/ /\ EnabledValidIds(Store, now + ClockStep) = Keys(Store)
       /\ Tick

SpecRoundRobin == InitRoundRobin /\ [][NextRoundRobin]_vars

-----------------------------------------------------------------------------
(* The streaming loop of handleChatCompletions (server.js 186-198) over  *)
(* streamIterator (87-100): one upstream chunk at a time                 *)

\* SpecStream: chunks in an upstream body, and bytes in a chunk
MaxChunks == 2
MaxChunkLen == 2

\* The bytes of an upstream body: the ASCII byte of "a", and the lead and
\* the continuation byte of the two-byte UTF-8 character "e-acute".
Bytes == {"61", "C3", "A9"}

\* The part of the model a specification leaves alone.
ServerIdle ==
    /\ accountsFile = NoFile
    /\ qwenCreds = NoQwenCreds
    /\ uuid = 1
    /\ req = [r \in Requests |-> ReqIdle]
    /\ cli = Idle
    /\ routingStrategy = "default"
    /\ served = <<>>
    /\ succeeded = <<>>

\* decoder.decode(value, {stream: true}): the text of the characters that
\* are complete, an incomplete last character being held back (pending)
\* for the next call, and a byte that cannot continue or start a
\* character being replaced by U+FFFD.
Decoded(character, decoding) ==
    [decoding EXCEPT !.text = <<character>> \o @]

RECURSIVE Decode(_, _)
Decode(value, pending) ==
    IF value = <<>> THEN [text |-> <<>>, pending |-> pending]
    ELSE IF pending # <<>>
    THEN IF Head(value) = "A9"
         THEN Decoded("e-acute", Decode(Tail(value), <<>>))
         ELSE Decoded("U+FFFD", Decode(value, <<>>))
    ELSE IF Head(value) = "61" THEN Decoded("a", Decode(Tail(value), <<>>))
    ELSE IF Head(value) = "C3" THEN Decode(Tail(value), <<"C3">>)
    ELSE Decoded("U+FFFD", Decode(Tail(value), <<>>))

\* res.write(chunk) puts the UTF-8 encoding of the string on the wire.
RECURSIVE Utf8(_)
Utf8(text) ==
    IF text = <<>> THEN <<>>
    ELSE (CASE Head(text) = "a" -> <<"61">>
            [] Head(text) = "e-acute" -> <<"C3", "A9">>
            [] OTHER -> <<"EF", "BF", "BD">>) \o Utf8(Tail(text))

\* The loop after res.writeHead(200) and the first reader.read(): the
\* chunks the upstream has still to send, those read, the decoder's
\* held-back bytes, the chunks written to the client, and the events.
Streaming(body) ==
    [pc |-> "reading", body |-> body, received |-> <<>>, pending |-> <<>>,
     written |-> <<>>, log |-> <<>>, connected |-> TRUE, locked |-> TRUE,
     ended |-> FALSE]

\* reader.read() gives a chunk: it is decoded, yielded, written, and the
\* next read is under way before any other event is handled.  res.write
\* on a closed connection does not throw.
StreamChunk ==
    /\ stream.pc = "reading"
    /\ stream.body # <<>>
    /\ LET decoding == Decode(Head(stream.body), stream.pending)
       IN  stream' = [stream EXCEPT
               !.body = Tail(@),
               !.received = Append(@, Head(stream.body)),
               !.pending = decoding.pending,
               !.written = Append(@, Utf8(decoding.text)),
               !.log = Append(@, "chunk")]
    /\ UNCHANGED <<accountsFile, qwenCreds, uuid, now, req, cli, routingStrategy, served, succeeded, flow, resolved, forwarded, listing>>

\* reader.read() gives done: the lock is released and the response ended.
StreamDone ==
    /\ stream.pc = "reading"
    /\ stream.body = <<>>
    /\ stream' = [stream EXCEPT !.pc = "ended", !.locked = FALSE,
                                !.ended = TRUE, !.log = Append(@, "end")]
    /\ UNCHANGED <<accountsFile, qwenCreds, uuid, now, req, cli, routingStrategy, served, succeeded, flow, resolved, forwarded, listing>>

\* reader.read() rejects: the lock is released and the exception leaves
\* the loop, and the handler as UpstreamBody tells.
StreamFails ==
    /\ stream.pc = "reading"
    /\ stream' = [stream EXCEPT !.pc = "escaped", !.locked = FALSE,
                                !.log = Append(@, "error")]
    /\ UNCHANGED <<accountsFile, qwenCreds, uuid, now, req, cli, routingStrategy, served, succeeded, flow, resolved, forwarded, listing>>

\* The client closes the connection.  Neither req nor res has a listener
\* for 'close', 'aborted' or 'error': the loop is not told.
ClientDisconnects ==
    /\ stream.pc = "reading"
    /\ stream.connected
    /\ stream' = [stream EXCEPT !.connected = FALSE,
                                !.log = Append(@, "close")]
    /\ UNCHANGED <<accountsFile, qwenCreds, uuid, now, req, cli, routingStrategy, served, succeeded, flow, resolved, forwarded, listing>>

Chunks == UNION {[1..n -> Bytes] : n \in 1..MaxChunkLen}

Bodies == UNION {[1..n -> Chunks] : n \in 0..MaxChunks}

InitStream ==
    /\ ServerIdle
    /\ now = DrawnNow
    /\ \E body \in Bodies : stream = Streaming(body)
    /\ flow = NoFlow
    /\ resolved = Unresolved
    /\ forwarded = NotForwarded
    /\ listing = NotListed

NextStream ==
    \/ StreamChunk
    \/ StreamDone
    \/ StreamFails
    \/ ClientDisconnects

SpecStream == InitStream /\ [][NextStream]_vars

-----------------------------------------------------------------------------
(* performDeviceAuthFlow (oauth.js 208-241): the device-code request, the *)
(* caller's hook, and the loop that sleeps and polls the token endpoint   *)

\* The default of pollIntervalMs, and the cap of the interval.
DefaultPollIntervalMs == 2000
MaxPollIntervalMs == 10000

\* What a sleep and a poll can take beyond their least duration.
Latency == DefaultPollIntervalMs \div 2

\* The arguments the flow is run with: the default interval, a long one or
\* one above the cap, and no time, little time or time enough for the
\* interval to reach its cap (the default of five minutes is 150 default
\* intervals).
PollIntervals ==
    {DefaultPollIntervalMs, 4 * DefaultPollIntervalMs, 2 * MaxPollIntervalMs}

Timeouts == {0, 3 * DefaultPollIntervalMs, 3 * MaxPollIntervalMs}

\* The model's clock stops here.  The loop sleeps only while
\* Date.now() - startTime < timeoutMs, so it never gets this far.
FlowHorizon == DrawnNow + 3 * MaxPollIntervalMs + Latency

\* What the token endpoint answers to a poll: a status with an error
\* document (or a body that is not JSON), or 200 with a token set.
PollAnswers ==
    [status : {400, 429, 500},
     error : {"authorization_pending", "slow_down", "access_denied", "not JSON"},
     tokenResponse : {NoResponse}]
    \cup
    [status : {200}, error : {"none"},
     tokenResponse : {TokenResponse(2, expires_in) : expires_in \in {30, 60}}]

NoAnswer == [status |-> Null, error |-> "none", tokenResponse |-> NoResponse]

\* pollDeviceToken (93-136): null while authorization is pending, a
\* SlowDownError, any other error, or the token JSON.
PollDeviceTokenByError(answer) ==
    IF answer.status \in 200..299 THEN "token"
    ELSE IF answer.error = "authorization_pending" THEN "pending"
    ELSE IF answer.error = "slow_down" THEN "SlowDownError"
    ELSE "Error"

PollDeviceToken(answer) ==
    IF answer.status \in 200..299 THEN "token"
    ELSE IF answer.error = "not JSON" THEN "Error"
    ELSE IF answer.status = 400 /\ answer.error = "authorization_pending"
    THEN "pending"
    ELSE IF answer.status = 429 /\ answer.error = "slow_down"
    THEN "SlowDownError"
    ELSE "Error"

\* tokenResponseToCredentials (141-150) at time t.
TokenResponseToCredentialsInSeconds(tokenResponse, t) ==
    [accessToken |-> tokenResponse.access_token,
     refreshToken |-> tokenResponse.refresh_token,
     resourceUrl |-> tokenResponse.resource_url,
     expiryDate |-> t + tokenResponse.expires_in]

TokenResponseToCredentials(tokenResponse, t) ==
    [accessToken |-> tokenResponse.access_token,
     refreshToken |-> tokenResponse.refresh_token,
     resourceUrl |-> tokenResponse.resource_url,
     expiryDate |-> t + tokenResponse.expires_in * 1000]

\* Math.min(interval * 1.5, 10000); the intervals of the model are even.
SlowDownUncapped(interval) == (interval * 3) \div 2

SlowDown(interval) ==
    IF (interval * 3) \div 2 < MaxPollIntervalMs
    THEN (interval * 3) \div 2
    ELSE MaxPollIntervalMs

\* onVerificationUrl(...), counted.
OnVerificationUrlSkipped(called) == called

OnVerificationUrl(called) == called + 1

\* The test of the while loop at time t.
WhileNeverEnds(f, t) == TRUE

While(f, t) == t - f.startTime < f.timeoutMs

\* The top of the loop at time t: the next sleep is set, or the loop is
\* left and the timeout error thrown.
LoopTop(f, t) ==
    IF While(f, t)
    THEN [f EXCEPT !.pc = "sleeping"]
    ELSE [f EXCEPT !.pc = "done", !.result = "Device authorization timeout"]

\* The flow as it is called: the device-code request is under way.
Flow(pollIntervalMs, timeoutMs) ==
    [pc |-> "deviceCode", pollIntervalMs |-> pollIntervalMs,
     timeoutMs |-> timeoutMs, issued |-> FALSE, called |-> 0,
     startTime |-> Null, interval |-> Null,
     sleeps |-> 0, polls |-> 0, pendings |-> 0, slowDowns |-> 0,
     answer |-> NoAnswer, result |-> "none", credentials |-> NoCredentials]

\* requestDeviceAuthorization returns or throws; when it returns the hook
\* is called, the clock read, and the loop entered.
RequestDeviceAuthorization(ok) ==
    /\ flow.pc = "deviceCode"
    /\ flow' = IF ok
               THEN LoopTop([flow EXCEPT !.issued = TRUE,
                                         !.called = OnVerificationUrl(@),
                                         !.startTime = now,
                                         !.interval = flow.pollIntervalMs],
                            now)
               ELSE [flow EXCEPT !.pc = "done", !.result = "Error"]
    /\ UNCHANGED <<accountsFile, qwenCreds, uuid, now, req, cli, routingStrategy, served, succeeded, stream, resolved, forwarded, listing>>

\* The timer fires after the interval or later, and the poll is sent.
SleepDone(late) ==
    /\ flow.pc = "sleeping"
    /\ now < FlowHorizon
    /\ now' = now + flow.interval + late
    /\ flow' = [flow EXCEPT !.pc = "polling", !.sleeps = @ + 1]
    /\ UNCHANGED <<accountsFile, qwenCreds, uuid, req, cli, routingStrategy, served, succeeded, stream, resolved, forwarded, listing>>

\* The token endpoint answers after some time (lines 225-237).
PollAnswered(answer, latency) ==
    LET t == now + latency
        polled == [flow EXCEPT !.polls = @ + 1, !.answer = answer]
        outcome == PollDeviceToken(answer)
    IN  /\ flow.pc = "polling"
        /\ now' = t
        /\ flow' =
              CASE outcome = "token" ->
                     [polled EXCEPT
                        !.pc = "done", !.result = "credentials",
                        !.credentials =
                            TokenResponseToCredentials(answer.tokenResponse, t)]
                [] outcome = "pending" ->
                     LoopTop([polled EXCEPT !.pendings = @ + 1], t)
                [] outcome = "SlowDownError" ->
                     LoopTop([polled EXCEPT !.slowDowns = @ + 1,
                                            !.interval = SlowDown(@)], t)
                [] OTHER ->
                     [polled EXCEPT !.pc = "done", !.result = "Error"]
        /\ UNCHANGED <<accountsFile, qwenCreds, uuid, req, cli, routingStrategy, served, succeeded, stream, resolved, forwarded, listing>>

InitFlow ==
    /\ ServerIdle
    /\ now = DrawnNow
    /\ stream = NoStream
    /\ \E pollIntervalMs \in PollIntervals, timeoutMs \in Timeouts :
           flow = Flow(pollIntervalMs, timeoutMs)
    /\ resolved = Unresolved
    /\ forwarded = NotForwarded
    /\ listing = NotListed

NextFlow ==
    \/ \E ok \in BOOLEAN : RequestDeviceAuthorization(ok)
    \/ \E late \in {0, Latency} : SleepDone(late)
    \/ \E answer \in PollAnswers, latency \in {0, Latency} :
           PollAnswered(answer, latency)

SpecFlow == InitFlow /\ [][NextFlow]_vars

\* Every sleep and every poll completes.
FairFlow == SpecFlow /\ WF_vars(NextFlow)

-----------------------------------------------------------------------------
(* resolveBaseUrl (manager.js 296-321).  A string is the sequence of its *)
(* parts: a part is a run of characters that the function's tests either *)
(* match whole or not at all.                                            *)

\* SpecResolve: parts in a resource_url
MaxUrlLen == 3

\* A blank, schemes in lower and upper case, the provider markers
\* ("dashscope" followed by "-intl" is the international one), a host
\* that is no marker, a slash, and the version segment in both cases.
UrlParts ==
    {" ", "http://", "https://", "HTTP://", "ftp://",
     "portal.qwen.ai", "PORTAL.QWEN.AI", "dashscope", "-intl",
     "host", "/", "/v1", "/V1"}

\* API_ENDPOINTS (manager.js 32-36)
Dashscope ==
    <<"https://", "dashscope", ".aliyuncs.com/compatible-mode", "/v1">>

DashscopeIntl ==
    <<"https://", "dashscope", "-intl", ".aliyuncs.com/compatible-mode", "/v1">>

Portal == <<"https://", "portal.qwen.ai", "/v1">>

\* String.prototype.toLowerCase
LowerCase(part) ==
    CASE part = "HTTP://" -> "http://"
      [] part = "PORTAL.QWEN.AI" -> "portal.qwen.ai"
      [] part = "/V1" -> "/v1"
      [] OTHER -> part

ToLowerCase(s) == [i \in DOMAIN s |-> LowerCase(s[i])]

\* String.prototype.trim
RECURSIVE TrimStart(_)
TrimStart(s) ==
    IF s # <<>> /\ Head(s) = " " THEN TrimStart(Tail(s)) ELSE s

RECURSIVE TrimEnd(_)
TrimEnd(s) ==
    IF s # <<>> /\ s[Len(s)] = " "
    THEN TrimEnd(SubSeq(s, 1, Len(s) - 1))
    ELSE s

Trim(s) == TrimEnd(TrimStart(s))

\* String.prototype.includes, startsWith and endsWith
Includes(s, searchString) ==
    \E i \in 1..(Len(s) - Len(searchString) + 1) :
        SubSeq(s, i, i + Len(searchString) - 1) = searchString

StartsWith(s, searchString) ==
    /\ Len(s) >= Len(searchString)
    /\ SubSeq(s, 1, Len(searchString)) = searchString

EndsWith(s, searchString) ==
    /\ Len(s) >= Len(searchString)
    /\ SubSeq(s, Len(s) - Len(searchString) + 1, Len(s)) = searchString

ResolveBaseUrlRegionalFirst(resourceUrl) ==
    LET normalized == Trim(ToLowerCase(resourceUrl))
    IN  IF resourceUrl = <<>> THEN Dashscope
        ELSE IF Includes(normalized, <<"portal.qwen.ai">>) THEN Portal
        ELSE IF Includes(normalized, <<"dashscope">>) THEN Dashscope
        ELSE IF Includes(normalized, <<"dashscope", "-intl">>)
        THEN DashscopeIntl
        ELSE IF \/ StartsWith(normalized, <<"http://">>)
                \/ StartsWith(normalized, <<"https://">>)
        THEN IF EndsWith(resourceUrl, <<"/v1">>)
             THEN resourceUrl
             ELSE resourceUrl \o <<"/v1">>
        ELSE Dashscope

ResolveBaseUrl(resourceUrl) ==
    LET normalized == Trim(ToLowerCase(resourceUrl))
    IN  IF resourceUrl = <<>> THEN Dashscope
        ELSE IF Includes(normalized, <<"portal.qwen.ai">>) THEN Portal
        ELSE IF Includes(normalized, <<"dashscope", "-intl">>)
        THEN DashscopeIntl
        ELSE IF Includes(normalized, <<"dashscope">>) THEN Dashscope
        ELSE IF \/ StartsWith(normalized, <<"http://">>)
                \/ StartsWith(normalized, <<"https://">>)
        THEN IF EndsWith(resourceUrl, <<"/v1">>)
             THEN resourceUrl
             ELSE resourceUrl \o <<"/v1">>
        ELSE Dashscope

\* resolveBaseUrl is called with a string, and returns.
Resolving(resourceUrl) ==
    [pc |-> "called", resourceUrl |-> resourceUrl, baseUrl |-> <<>>]

ResolveBaseUrlReturns ==
    /\ resolved.pc = "called"
    /\ resolved' = [resolved EXCEPT
           !.pc = "returned",
           !.baseUrl = ResolveBaseUrl(resolved.resourceUrl)]
    /\ UNCHANGED <<accountsFile, qwenCreds, uuid, now, req, cli, routingStrategy, served, succeeded, stream, flow, forwarded, listing>>

ResourceUrls == UNION {[1..n -> UrlParts] : n \in 0..MaxUrlLen}

InitResolve ==
    /\ ServerIdle
    /\ now = DrawnNow
    /\ stream = NoStream
    /\ flow = NoFlow
    /\ \E resourceUrl \in ResourceUrls : resolved = Resolving(resourceUrl)
    /\ forwarded = NotForwarded
    /\ listing = NotListed

NextResolve == ResolveBaseUrlReturns

SpecResolve == InitResolve /\ [][NextResolve]_vars

-----------------------------------------------------------------------------
(* The upstream request of handleChatCompletions (server.js 153-160):    *)
(* resolveBaseUrl and buildHeaders (manager.js 390-406) on the same      *)
(* credentials                                                           *)

\* token_type as providers send it: RFC 6749 leaves its case open.
TokenTypes == {"Bearer", "bearer"}

\* The credentials getValidCredentials returns, as far as the request is
\* built from them.  An absent resourceUrl and the empty string are both
\* falsy and take the same branches at lines 297 and 391-392: both are <<>>.
ForwardedCredentials ==
    [accessToken : {1, 2}, tokenType : TokenTypes, resourceUrl : ResourceUrls]

VendorHeaders ==
    {<<"X-DashScope-CacheControl", "enable">>,
     <<"X-DashScope-UserAgent", "qwen-proxy/1.1.0">>,
     <<"X-DashScope-AuthType", "qwen-oauth">>}

\* buildHeaders: the headers as a set of name and value pairs.
BuildHeaders(credentials) ==
    LET resourceUrl == ToLowerCase(credentials.resourceUrl)
        isDashScope == Includes(resourceUrl, <<"dashscope">>) \/ resourceUrl = <<>>
    IN  {<<"Authorization", <<"Bearer", credentials.accessToken>>>>,
         <<"Content-Type", "application/json">>}
        \cup (IF isDashScope THEN VendorHeaders ELSE {})

Building(credentials) ==
    [pc |-> "credentials", credentials |-> credentials,
     endpoint |-> <<>>, headers |-> {}]

\* Lines 153-160: the endpoint and the headers of the fetch.
BuildRequest ==
    /\ forwarded.pc = "credentials"
    /\ forwarded' = [forwarded EXCEPT
           !.pc = "built",
           !.endpoint = ResolveBaseUrl(forwarded.credentials.resourceUrl)
                            \o <<"/chat/completions">>,
           !.headers = BuildHeaders(forwarded.credentials)]
    /\ UNCHANGED <<accountsFile, qwenCreds, uuid, now, req, cli, routingStrategy, served, succeeded, stream, flow, resolved, listing>>

InitForward ==
    /\ ServerIdle
    /\ now = DrawnNow
    /\ stream = NoStream
    /\ flow = NoFlow
    /\ resolved = Unresolved
    /\ \E credentials \in ForwardedCredentials : forwarded = Building(credentials)
    /\ listing = NotListed

NextForward == BuildRequest

SpecForward == InitForward /\ [][NextForward]_vars

-----------------------------------------------------------------------------
(* SpecStore: the server started with no accounts file and no qwen-code  *)
(* credentials; accounts are added (with a token that is due for a       *)
(* refresh), changed and removed, qwen-code logs in, and the server      *)
(* answers its routes and one chat completion                            *)

\* The qwen-code CLI, another program, writes ~/.qwen/oauth_creds.json.
QwenCodeLogin ==
    /\ ~qwenCreds.exists
    /\ qwenCreds' = [exists |-> TRUE, access_token |-> 1, refresh_token |-> 1,
                     resource_url |-> Null, expiry_date |-> now + 4 * ClockStep]
    /\ UNCHANGED <<accountsFile, uuid, now, req, cli, routingStrategy, served, succeeded, stream, flow, resolved, forwarded, listing>>

InitStore ==
    /\ ServerIdle
    /\ now = ClockStep
    /\ stream = NoStream
    /\ flow = NoFlow
    /\ resolved = Unresolved
    /\ forwarded = NotForwarded
    /\ listing = NotListed

NextStore ==
    \/ QwenCodeLogin
    \/ /\ Room(MaxStoreAccounts, MaxStoreAccounts + 1)
       /\ AddAccount(Null, Issued(now, 1, 30))
    \/ \E accountId \in KnownIds : RemoveAccount(accountId)
    \/ \E accountId \in KnownIds : SetDefaultAccount(accountId)
    \/ \E accountId \in KnownIds, enabled \in BOOLEAN : ToggleAccount(accountId, enabled)
    \/ \E route \in Routes : HandleRequest(1, route)
    \/ /\ Len(served) < MaxStoreRequests
       /\ ChatRoute(1, NonStreaming)
    \/ GetValidCredentials(1)
    \/ \E response \in Responses : RefreshResponse(1, response)
    \/ RefreshJson(1)
    \/ UpstreamResponse(1, 200)
    \/ UpstreamBody(1, TRUE)
    \/ Finish(1)

SpecStore == InitStore /\ [][NextStore]_vars

-----------------------------------------------------------------------------
(* SpecBalance: two requests under round-robin, at once or one after the *)
(* other, on two accounts that are enabled and valid throughout; the     *)
(* upstream answers 200 or 500                                           *)

InitBalance ==
    /\ \E f \in [1..2 -> RoundRobinStates] : accountsFile = DrawnFile(2, f, 1)
    /\ uuid = 3
    /\ qwenCreds = NoQwenCreds
    /\ now = DrawnNow
    /\ req = [r \in Requests |-> ReqIdle]
    /\ cli = Idle
    /\ routingStrategy = "round-robin"
    /\ served = <<>>
    /\ succeeded = <<>>
    /\ stream = NoStream
    /\ flow = NoFlow
    /\ resolved = Unresolved
    /\ forwarded = NotForwarded
    /\ listing = NotListed

Balanced(r) ==
    \/ /\ Len(served) < MaxBalanceRequests
       /\ ChatRoute(r, NonStreaming)
    \/ GetValidCredentials(r)
    \/ \E status \in {200, 500} : UpstreamResponse(r, status)
    \/ UpstreamBody(r, TRUE)

NextBalance == \E r \in Requests : Balanced(r)

SpecBalance == InitBalance /\ [][NextBalance]_vars

-----------------------------------------------------------------------------
(* SpecStarve: requests served one after the other under round-robin on  *)
(* two enabled accounts with refresh tokens, whose tokens expire as time *)
(* passes and are refreshed                                              *)

StarveStates ==
    [enabled : {TRUE},
     refreshToken : {1},
     expiryDate : {DrawnNow + TOKEN_REFRESH_BUFFER_MS + ClockStep,
                   DrawnNow + TOKEN_REFRESH_BUFFER_MS + 2 * ClockStep},
     lastUsed : {Null, ClockStep}]

\* The token endpoint grants every refresh, for 60 seconds.
Grants == {TokenResponse(refresh_token, 60) : refresh_token \in {Null, 2}}

InitStarve ==
    /\ \E f \in [1..2 -> StarveStates] : accountsFile = DrawnFile(2, f, 1)
    /\ uuid = 3
    /\ qwenCreds = NoQwenCreds
    /\ now = DrawnNow
    /\ req = [r \in Requests |-> ReqIdle]
    /\ cli = Idle
    /\ routingStrategy = "round-robin"
    /\ served = <<>>
    /\ succeeded = <<>>
    /\ stream = NoStream
    /\ flow = NoFlow
    /\ resolved = Unresolved
    /\ forwarded = NotForwarded
    /\ listing = NotListed

NextStarve ==
    \/ /\ Len(served) < MaxStarveRequests
       /\ ChatRoute(1, NonStreaming)
    \/ GetValidCredentials(1)
    \/ \E response \in Grants : RefreshResponse(1, response)
    \/ RefreshJson(1)
    \/ UpstreamResponse(1, 200)
    \/ UpstreamBody(1, TRUE)
    \/ Finish(1)
    \/ Clock

SpecStarve == InitStarve /\ [][NextStarve]_vars

-----------------------------------------------------------------------------
(* SpecRefresh: requests served one after the other on two accounts that *)
(* hold a refresh token and, some of them, the resource URL their login  *)
(* was answered with; tokens expire and are refreshed                    *)

\* credentials.resourceUrl as the store holds it: absent, or the host the
\* provider named at login.
PortalHost == 1

\* The string resolveBaseUrl is given for credentials.resourceUrl.
ResourceUrlText(resourceUrl) ==
    IF resourceUrl = Null THEN <<>> ELSE <<"portal.qwen.ai">>

RefreshStates ==
    [enabled : {TRUE},
     refreshToken : {1},
     resourceUrl : {Null, PortalHost},
     expiryDate : {DrawnNow + TOKEN_REFRESH_BUFFER_MS,
                   DrawnNow + TOKEN_REFRESH_BUFFER_MS + ClockStep},
     lastUsed : {Null, ClockStep}]

\* The drawn file, each account with its resource URL.
WithResourceUrl(file, f) ==
    [file EXCEPT !.data.accounts =
        [i \in DOMAIN @ |->
            [@[i] EXCEPT !.credentials.resourceUrl = f[i].resourceUrl]]]

\* The token endpoint grants every refresh, and names the resource URL in
\* its answer or leaves it out.
RefreshGrants ==
    Grants \cup {[response EXCEPT !.resource_url = PortalHost] : response \in Grants}

InitRefresh ==
    /\ \E f \in [1..2 -> RefreshStates] :
          accountsFile = WithResourceUrl(DrawnFile(2, f, 1), f)
    /\ uuid = 3
    /\ qwenCreds = NoQwenCreds
    /\ now = DrawnNow
    /\ req = [r \in Requests |-> ReqIdle]
    /\ cli = Idle
    /\ routingStrategy = "round-robin"
    /\ served = <<>>
    /\ succeeded = <<>>
    /\ stream = NoStream
    /\ flow = NoFlow
    /\ resolved = Unresolved
    /\ forwarded = NotForwarded
    /\ listing = NotListed

NextRefresh ==
    \/ /\ Len(served) < MaxRefreshRequests
       /\ ChatRoute(1, NonStreaming)
    \/ GetValidCredentials(1)
    \/ \E response \in RefreshGrants : RefreshResponse(1, response)
    \/ RefreshJson(1)
    \/ UpstreamResponse(1, 200)
    \/ UpstreamBody(1, TRUE)
    \/ Finish(1)

SpecRefresh == InitRefresh /\ [][NextRefresh]_vars

-----------------------------------------------------------------------------
(* SpecListing: the CLI lists the accounts and GET /status reports them, *)
(* on the same store at the same time                                    *)

\* isCredentialsExpired(credentials) when Date.now() is t (oauth.js)
IsCredentialsExpired(credentials, t) ==
    IF Falsy(credentials.expiryDate) THEN FALSE
    ELSE t > credentials.expiryDate - TOKEN_REFRESH_BUFFER_MS

\* The 'Active' line of listAccounts (cli.js 193)
Active(data, t) ==
    Cardinality({i \in DOMAIN data.accounts :
        /\ data.accounts[i].enabled
        /\ ~IsCredentialsExpired(data.accounts[i].credentials, t)})

\* activeAccounts of handleStatus (server.js 229-242)
ActiveAccounts(data, t) ==
    Cardinality({i \in DOMAIN data.accounts :
        /\ data.accounts[i].enabled
        /\ IsTokenValid(data.accounts[i].credentials, t)})

\* Neither has been asked for yet.
Asked ==
    [pc |-> "asked", listed |-> FALSE, active |-> Null,
     status |-> FALSE, activeAccounts |-> Null]

\* qwen-proxy account list: nothing but the hint is printed for an empty
\* store.
ListAccounts ==
    LET data == LoadAccountsData(accountsFile)
    IN  /\ listing.pc = "asked"
        /\ ~listing.listed
        /\ listing' = [listing EXCEPT
               !.listed = TRUE,
               !.active = IF Len(data.accounts) = 0 THEN Null
                          ELSE Active(data, now)]
        /\ UNCHANGED <<accountsFile, qwenCreds, uuid, now, req, cli, routingStrategy, served, succeeded, stream, flow, resolved, forwarded>>

\* GET /status
HandleStatus ==
    LET l == LoadAccounts(accountsFile, uuid)
    IN  /\ listing.pc = "asked"
        /\ ~listing.status
        /\ accountsFile' = l.file
        /\ uuid' = l.uuid
        /\ listing' = [listing EXCEPT
               !.status = TRUE,
               !.activeAccounts = ActiveAccounts(l.data, now)]
        /\ UNCHANGED <<qwenCreds, now, req, cli, routingStrategy, served, succeeded, stream, flow, resolved, forwarded>>

\* An account as a login, a migration, requests and the account commands
\* leave it: without an expiry date, expired, at the edge of the refresh
\* buffer, or valid.
ListedStates ==
    [enabled : BOOLEAN,
     refreshToken : {1},
     expiryDate : {Null, DrawnNow, DrawnNow + TOKEN_REFRESH_BUFFER_MS,
                   DrawnNow + TOKEN_REFRESH_BUFFER_MS + ClockStep},
     lastUsed : {Null}]

InitListing ==
    /\ \E n \in 0..MaxListAccounts :
         \E f \in [1..n -> ListedStates] :
              /\ accountsFile = DrawnFile(n, f, 1)
              /\ uuid = n + 1
    /\ qwenCreds = NoQwenCreds
    /\ now = DrawnNow
    /\ req = [r \in Requests |-> ReqIdle]
    /\ cli = Idle
    /\ routingStrategy = "default"
    /\ served = <<>>
    /\ succeeded = <<>>
    /\ stream = NoStream
    /\ flow = NoFlow
    /\ resolved = Unresolved
    /\ forwarded = NotForwarded
    /\ listing = Asked

NextListing ==
    \/ ListAccounts
    \/ HandleStatus

SpecListing == InitListing /\ [][NextListing]_vars

\* Validity and age as the claims state them.
Unexpired(credentials, t) ==
    /\ credentials.accessToken # Null
    /\ credentials.expiryDate # Null
    /\ t < credentials.expiryDate - 30000

UsableIds(data, t) ==
    {id \in Keys(data) : /\ Account(data, id).enabled
                         /\ Unexpired(Account(data, id).credentials, t)}

EnabledIds(data) == {id \in Keys(data) : Account(data, id).enabled}

NotUsedAfter(a, b) ==
    \/ a.lastUsed = Null
    \/ b.lastUsed # Null /\ a.lastUsed <= b.lastUsed

FirstIn(data, ids) ==
    data.accounts[CHOOSE i \in DOMAIN data.accounts :
                     /\ data.accounts[i].id \in ids
                     /\ \A j \in 1..(i - 1) : data.accounts[j].id \notin ids].id

\* An account but for its credentials.
Settings(a) == [a EXCEPT !.credentials = NoCredentials]

C2_SingleFlightRefresh ==
    \A r1, r2 \in Requests :
        (/\ r1 # r2
         /\ req[r1].pc \in {"refreshing", "json"}
         /\ req[r2].pc \in {"refreshing", "json"})
        => req[r1].account # req[r2].account

\* getValidCredentials returns to request r in this step.
Returns(r) == req[r].pc \in {"selected", "json"} /\ req'[r].pc = "upstream"

\* C3: the credentials getValidCredentials returns are unexpired under the
\* 30 s buffer at the moment it returns, read from the store or refreshed.
C3_ReturnedCredentialsUnexpired ==
    [][\A r \in Requests : Returns(r) => Unexpired(req'[r].credentials, now')]_vars

\* C4: under SpecCrud (from no accounts file, any sequence of completed
\* addAccount, removeAccount, CLI logout, setDefaultAccount and toggleAccount
\* calls) defaultAccountId is null when the store holds no account and is
\* otherwise the id of an account in the store; and a step that removes the
\* default account leaves the other accounts in their order and makes the
\* first of them the default, or null when none is left.
DefaultAccountOk(data) ==
    IF Len(data.accounts) = 0
    THEN data.defaultAccountId = Null
    ELSE data.defaultAccountId \in Keys(data)

RemovalReassignsDefault ==
    \A accountId \in KnownIds :
        (/\ Has(Store, accountId)
         /\ ~Has(Store', accountId)
         /\ Store.defaultAccountId = accountId)
        => /\ Store'.accounts = SelectSeq(Store.accounts, LAMBDA a : a.id # accountId)
           /\ Store'.defaultAccountId =
                 IF Len(Store'.accounts) > 0 THEN Store'.accounts[1].id ELSE Null

C4_DefaultAccountInvariant ==
    /\ []DefaultAccountOk(Store)
    /\ [][RemovalReassignsDefault]_vars

\* The first account drawn was removed while two others stayed: the default
\* is one of them.
C4_Witness ==
    /\ ~Has(Store, 1)
    /\ Len(Store.accounts) = 2
    /\ Store.defaultAccountId = Store.accounts[1].id

\* C5: getValidCredentials on a disabled account fails with the disabled
\* error, whatever its token; it starts no refresh and leaves the store as
\* it is.
C5_DisabledAccountFails ==
    [][\A r \in Requests :
          (/\ req[r].pc = "selected"
           /\ req'[r] # req[r]
           /\ Has(Store, req[r].account)
           /\ ~Account(Store, req[r].account).enabled)
          => /\ req'[r].pc = "responded"
             /\ req'[r].error = "Account is disabled"
             /\ accountsFile' = accountsFile]_vars

\* A disabled account whose token has expired and which has a refresh
\* token was refused.
C5_Witness ==
    \E r \in Requests :
        /\ req[r].pc = "responded"
        /\ req[r].error = "Account is disabled"
        /\ Has(Store, req[r].account)
        /\ ~Account(Store, req[r].account).enabled
        /\ ~Unexpired(Account(Store, req[r].account).credentials, now)
        /\ Account(Store, req[r].account).credentials.refreshToken = 1

Routed == req[1].pc # "idle"

RoutedAccount == IF req[1].pc = "selected" THEN req[1].account ELSE Null

\* C7: under the 'default' strategy getAccountForRequest returns the default
\* account when it exists and is enabled, and when it is disabled or missing
\* while some account is enabled, the first enabled account in store order.
C7_DefaultFallsBackToEnabled ==
    (Routed /\ routingStrategy = "default") =>
        LET d == Store.defaultAccountId
        IN  IF Has(Store, d) /\ Account(Store, d).enabled
            THEN RoutedAccount = d
            ELSE EnabledIds(Store) # {} =>
                     RoutedAccount = FirstIn(Store, EnabledIds(Store))

\* C8: under round-robin or load-balance, when some account is enabled and
\* valid, getAccountForRequest returns an enabled valid account that no
\* other enabled valid account is older than (null lastUsed being oldest).
C8_RoundRobinPicksLeastRecentlyUsed ==
    (/\ Routed
     /\ routingStrategy \in {"round-robin", "load-balance"}
     /\ UsableIds(Store, now) # {})
    => /\ RoutedAccount \in UsableIds(Store, now)
       /\ \A id \in UsableIds(Store, now) :
             NotUsedAfter(Account(Store, RoutedAccount), Account(Store, id))

\* Two usable accounts, the second one used before the first: the second
\* is picked.
C8_Witness ==
    /\ Routed
    /\ routingStrategy = "round-robin"
    /\ UsableIds(Store, now) = {1, 2}
    /\ Account(Store, 1).lastUsed = DrawnNow
    /\ Account(Store, 2).lastUsed = ClockStep
    /\ RoutedAccount = 2

\* C9: with N enabled valid accounts and requests served one after the
\* other, the first N requests are served by N distinct accounts and
\* request N+1 by the account that served request 1.
C9_RoundRobinVisitsEachOnce ==
    LET n == Len(Store.accounts)
    IN  /\ \A i, j \in 1..Len(served) :
              (i < j /\ j <= n) => served[i] # served[j]
        /\ Len(served) > n => served[n + 1] = served[1]

\* C10: under round-robin, when no account is enabled and valid,
\* getAccountForRequest returns an enabled account with a refresh token if
\* there is one, and null otherwise.
C10_FallbackToRefreshable ==
    LET refreshable == {id \in EnabledIds(Store) :
                           Account(Store, id).credentials.refreshToken # Null}
    IN  (/\ Routed
         /\ routingStrategy \in {"round-robin", "load-balance"}
         /\ UsableIds(Store, now) = {})
        => IF refreshable # {}
           THEN RoutedAccount \in refreshable
           ELSE RoutedAccount = Null

\* No usable account; the first account is enabled without a refresh token,
\* the second has one and is picked.
C10_Witness ==
    /\ Routed
    /\ routingStrategy = "round-robin"
    /\ UsableIds(Store, now) = {}
    /\ EnabledIds(Store) = {1, 2}
    /\ Account(Store, 1).credentials.refreshToken = Null
    /\ RoutedAccount = 2

\* Request r takes a step.
Steps(r) == req'[r] # req[r]

C12_OneTerminalState ==
    \A r \in Requests :
        /\ req[r].writeHead <= 1
        /\ req[r].ended <= 1
        /\ req[r].pc \in {"responded", "escaped"}
              => req[r].writeHead = 1 /\ req[r].ended = 1

\* C13: no failure while a request is handled lets an exception leave
\* handleRequest.
C13_NoExceptionEscapes == \A r \in Requests : req[r].pc # "escaped"

\* C14: a body that does not parse is answered 400 with {error: 'Invalid
\* JSON body'}; no account is selected, nothing is fetched and the store is
\* not written.
C14_InvalidBodyIs400 ==
    [][\A r \in Requests :
          (Steps(r) /\ req[r].pc = "idle" /\ req'[r].parsed = "invalid")
          => /\ req'[r].pc = "responded"
             /\ req'[r].status = 400
             /\ req'[r].body = "error"
             /\ req'[r].error = "Invalid JSON body"
             /\ req'[r].writeHead = 1 /\ req'[r].ended = 1
             /\ req'[r].account = Null
             /\ req'[r].tokenCalls = 0
             /\ req'[r].chatCalls = 0
             /\ accountsFile' = accountsFile
             /\ uuid' = uuid]_vars

\* A body that does not parse was refused while the store has no account.
C14_Witness ==
    \E r \in Requests :
        /\ req[r].pc = "responded"
        /\ req[r].parsed = "invalid"
        /\ req[r].status = 400
        /\ Keys(Store) = {}

\* getValidCredentials cannot but throw on the account of request r.
MustThrow(r) ==
    \/ ~Has(Store, req[r].account)
    \/ ~Account(Store, req[r].account).enabled
    \/ /\ ~Unexpired(Account(Store, req[r].account).credentials, now)
       /\ Account(Store, req[r].account).credentials.refreshToken = Null

\* C15: when getValidCredentials fails for the selected account, the
\* request is answered 401 with {error: <message>}, the upstream is not
\* called and the store is as it was.
C15_CredentialFailureIs401 ==
    [][\A r \in Requests :
          /\ (Steps(r) /\ req[r].pc = "selected" /\ MustThrow(r))
                => req'[r].pc = "responded"
          /\ (/\ Steps(r)
              /\ req[r].pc \in {"selected", "refreshing", "json"}
              /\ req'[r].pc = "responded")
             => /\ req'[r].status = 401
                /\ req'[r].body = "error"
                /\ req'[r].error # "none"
                /\ req'[r].writeHead = 1 /\ req'[r].ended = 1
                /\ req'[r].chatCalls = 0
                /\ accountsFile' = accountsFile]_vars

\* The token endpoint refused the refresh and the request was answered 401.
C15_Witness ==
    \E r \in Requests :
        /\ req[r].pc = "responded"
        /\ req[r].status = 401
        /\ req[r].error = "Token refresh failed"
        /\ req[r].tokenCalls = 1
        /\ req[r].chatCalls = 0

C17_NoRetry ==
    [][\A r \in Requests :
          /\ req'[r].tokenCalls <= 1
          /\ req'[r].chatCalls <= 1
          /\ (Steps(r) /\ req[r].pc = "upstream" /\ req'[r].upstream = Null)
                => /\ req'[r].pc = "responded"
                   /\ req'[r].status = 502
                   /\ req'[r].body = "error"
                   /\ req'[r].error = "Proxy error"
                   /\ req'[r].chatCalls = 1
                   /\ req'[r].tokenCalls = req[r].tokenCalls
                   /\ accountsFile' = accountsFile]_vars

\* After a refresh the upstream call failed at network level: one call of
\* each, and 502.
C17_Witness ==
    \E r \in Requests :
        /\ req[r].pc = "responded"
        /\ req[r].status = 502
        /\ req[r].upstream = Null
        /\ req[r].tokenCalls = 1
        /\ req[r].chatCalls = 1

\* C18: every response with a status of 400 or above has a JSON body of
\* the form {error: <string>}.
C18_ErrorBodyShape ==
    \A r \in Requests :
        (req[r].pc = "responded" /\ req[r].status >= 400)
        => req[r].body = "error" /\ req[r].error # "none"

\* The requests served with account id that ended in a 2xx response with
\* the whole body passed on.
Successes(id) == {i \in DOMAIN succeeded : succeeded[i].account = id}

\* No request is under way.
Quiet == \A r \in Requests : req[r].pc \in {"idle", "responded", "escaped"}

\* C19: after any sequence of chat-completion requests an account's
\* requestCount is the number of requests it served that ended in success,
\* and its lastUsed the time of the last of them; requests that end in an
\* error leave both as they were.
C19_UsageCountsSuccesses ==
    Quiet =>
        \A id \in Keys(Store) :
            /\ Account(Store, id).requestCount = Cardinality(Successes(id))
            /\ Account(Store, id).lastUsed =
                  IF Successes(id) = {} THEN Null
                  ELSE succeeded[CHOOSE i \in Successes(id) :
                                    \A j \in Successes(id) : j <= i].time

\* C20: when the upstream answered 2xx, the request is not answered with an
\* error status, whether or not the usage could be saved.
C20_UsageFailureNotSurfaced ==
    [][\A r \in Requests :
          (/\ Steps(r)
           /\ req[r].pc = "upstream"
           /\ req'[r].upstream # Null
           /\ req'[r].upstream < 300)
          => ~(req'[r].pc = "responded" /\ req'[r].status >= 400)]_vars


-----------------------------------------------------------------------------
\* C21: while a 2xx response is streamed, the chunks written to the client
\* are the chunks read from the upstream, byte for byte and one for one, in
\* the same order, and the response is ended only when the upstream body
\* has ended.
C21_ChunksPassedThrough ==
    stream.pc \in {"reading", "ended"} =>
        /\ stream.written = stream.received
        /\ stream.ended => stream.body = <<>>

\* C22: once the client has disconnected, no further upstream chunk is read
\* or written for that request.
C22_DisconnectStopsForwarding ==
    \A i \in DOMAIN stream.log :
        stream.log[i] = "close" =>
            \A j \in DOMAIN stream.log : j > i => stream.log[j] # "chunk"

-----------------------------------------------------------------------------
\* A poll has just been answered.
Polled == flow.pc = "polling" /\ flow'.polls = flow.polls + 1

Pending(answer) ==
    answer.status = 400 /\ answer.error = "authorization_pending"

SlowedDown(answer) ==
    answer.status = 429 /\ answer.error = "slow_down"

TimedOut == flow.result = "Device authorization timeout"

\* C23: onVerificationUrl has been called exactly once from the moment the
\* device code is issued, before any sleep or poll, and however many polls
\* follow; it has not been called while, or when, the device-code request
\* has not succeeded, and then nothing was slept or polled either.
C23_HookCalledOnce ==
    flow.pc # "none" =>
        /\ flow.issued => flow.called = 1
        /\ ~flow.issued => flow.called = 0 /\ flow.sleeps = 0 /\ flow.polls = 0

C23_Witness ==
    /\ flow.pc = "polling"
    /\ flow.polls >= 2
    /\ flow.called = 1

\* C24: a poll answered slow_down (429) sets the interval to the lesser of
\* one and a half times the interval and 10000 ms and the flow does not
\* fail with an error; a poll answered authorization_pending leaves the
\* interval as it was.
C24_SlowDownBacksOff ==
    [][Polled =>
        /\ SlowedDown(flow'.answer) =>
              /\ IF 3 * flow.interval <= 2 * MaxPollIntervalMs
                 THEN 2 * flow'.interval = 3 * flow.interval
                 ELSE flow'.interval = MaxPollIntervalMs
              /\ flow'.result # "Error"
              /\ flow'.pc = "sleeping" \/ TimedOut'
        /\ Pending(flow'.answer) =>
              /\ flow'.interval = flow.interval
              /\ flow'.pc = "sleeping" \/ TimedOut']_vars

C24_Witness ==
    /\ flow.pc = "sleeping"
    /\ flow.pollIntervalMs = DefaultPollIntervalMs
    /\ flow.interval = MaxPollIntervalMs
    /\ flow.slowDowns >= 5
    /\ flow.pendings >= 1

\* The flow has ended as the claim allows.
FlowEnded ==
    /\ flow.pc = "done"
    /\ flow.result \in {"credentials", "Error", "Device authorization timeout"}
    /\ TimedOut =>
          /\ flow.credentials = NoCredentials
          /\ now - flow.startTime >= flow.timeoutMs

\* C25: when every sleep and every poll completes, the flow ends, whatever
\* the provider answers: with credentials, with an error, or with the
\* timeout error once timeoutMs has passed since the loop was entered.
C25_FlowTerminates == <>FlowEnded

C25_Witness ==
    /\ flow.pc = "done"
    /\ TimedOut
    /\ flow.timeoutMs > 0
    /\ flow.polls = flow.pendings + flow.slowDowns
    /\ flow.polls >= 3

C27_PollsAfterSleeps ==
    flow.pc # "none" =>
        /\ flow.sleeps = flow.polls + (IF flow.pc = "polling" THEN 1 ELSE 0)
        /\ flow.result = "credentials" /\ flow.slowDowns = 0 =>
              /\ flow.polls = flow.pendings + 1
              /\ now - flow.startTime >= flow.pendings * flow.pollIntervalMs
              /\ flow.credentials.expiryDate =
                     now + flow.answer.tokenResponse.expires_in * 1000

C27_Witness ==
    /\ flow.result = "credentials"
    /\ flow.slowDowns = 0
    /\ flow.pendings = 2
    /\ flow.polls = 3

-----------------------------------------------------------------------------
\* getValidCredentials has just decided on the credentials of r's account:
\* it returned them as they are, or it asked for a refresh.
ReturnedAsValid(r) == req[r].pc = "selected" /\ req'[r].pc = "upstream"

RequiredRefresh(r) ==
    /\ req[r].pc = "selected"
    /\ \/ req'[r].pc = "refreshing"
       \/ req'[r].error = "Token expired and no refresh token available."

\* C28: credentials with an access token and an expiryDate are taken as
\* expired by getValidCredentials, which then requires a refresh, exactly
\* when now > expiryDate - 30000; at now = expiryDate - 30000 they are
\* returned as valid.
C28_ExpiredPastBuffer ==
    [][\A r \in Requests :
          LET credentials == Account(Store, req[r].account).credentials
          IN  (/\ ReturnedAsValid(r) \/ RequiredRefresh(r)
               /\ credentials.accessToken # Null
               /\ credentials.expiryDate # Null)
              => (RequiredRefresh(r) <=>
                    now > credentials.expiryDate - TOKEN_REFRESH_BUFFER_MS)]_vars

-----------------------------------------------------------------------------
\* The string is an absolute http(s) URL as it stands: a scheme, in either
\* case, and a host, with no blank and no provider marker in it.
CustomEndpoint(u) ==
    /\ Len(u) >= 2
    /\ LowerCase(u[1]) \in {"http://", "https://"}
    /\ u[2] = "host"
    /\ \A i \in DOMAIN u :
          LowerCase(u[i]) \notin {" ", "portal.qwen.ai", "dashscope"}

C30_CustomEndpointNormalized ==
    (resolved.pc = "returned" /\ CustomEndpoint(resolved.resourceUrl)) =>
        LET u == resolved.resourceUrl
        IN  /\ resolved.baseUrl = ResolveBaseUrl(u \o <<"/">>)
            /\ resolved.baseUrl = ResolveBaseUrl(<<" ">> \o u \o <<" ">>)
            /\ EndsWith(resolved.baseUrl, <<"/v1">>)
            /\ ~EndsWith(resolved.baseUrl, <<"/v1", "/v1">>)
            /\ ~Includes(resolved.baseUrl, <<"/", "/">>)
            /\ ~Includes(resolved.baseUrl, <<"/", "/v1">>)
            /\ ~Includes(resolved.baseUrl, <<" ">>)

-----------------------------------------------------------------------------
\* C31: the headers built for credentials hold Authorization with the
\* credentials' own tokenType followed by their accessToken, and
\* Content-Type: application/json.
C31_AuthorizationFromCredentials ==
    forwarded.pc = "built" =>
        /\ <<"Authorization", <<forwarded.credentials.tokenType,
                                forwarded.credentials.accessToken>>>>
               \in forwarded.headers
        /\ <<"Content-Type", "application/json">> \in forwarded.headers

\* C32: the three X-DashScope headers are all in the forwarded request when
\* its endpoint is that of the default regional base URL, and none of them
\* is when the endpoint is the portal's, the international or a custom one.
C32_VendorHeadersFollowBaseUrl ==
    forwarded.pc = "built" =>
        IF forwarded.endpoint = Dashscope \o <<"/chat/completions">>
        THEN VendorHeaders \subseteq forwarded.headers
        ELSE VendorHeaders \cap forwarded.headers = {}

-----------------------------------------------------------------------------
ReadOnlyRoutes ==
    {"GET /accounts", "GET /status", "GET /health", "GET /v1/models",
     "GET /v1/models/known", "GET /v1/models/unknown"}

\* C33: handling GET /accounts, GET /status, GET /health, GET /v1/models or
\* GET /v1/models/:id leaves the accounts file as it was, whether it exists
\* or not.
C33_ReadOnlyRoutesKeepStore ==
    [][\A r \in Requests, route \in ReadOnlyRoutes :
          HandleRequest(r, route) => accountsFile' = accountsFile]_vars

\* The id names no account of the store, as the operation loads it.
Missing(accountId) == ~Has(LoadAccounts(accountsFile, uuid).data, accountId)

\* C40: removeAccount, setDefaultAccount, toggleAccount and
\* updateCredentials on an id that is not in the store fail, and
\* updateAccountStats on such an id returns, and each leaves the accounts
\* file as it was; a refresh that ends after its account was removed does
\* not bring the account back.
C40_MissingAccountChangesNothing ==
    [][/\ \A accountId \in KnownIds :
             (/\ Missing(accountId)
              /\ \/ RemoveAccount(accountId)
                 \/ SetDefaultAccount(accountId)
                 \/ \E enabled \in BOOLEAN : ToggleAccount(accountId, enabled))
             => accountsFile' = accountsFile
       /\ \A r \in Requests :
             (Missing(req[r].account) /\ RefreshJson(r))
             => /\ accountsFile' = accountsFile
                /\ req'[r].error = "Account not found"
       /\ \A r \in Requests :
             (Missing(req[r].account) /\ UpstreamResponse(r, 200))
             => accountsFile' = accountsFile]_vars

-----------------------------------------------------------------------------
\* The enabled accounts that hold a refresh token.
RefreshableIds(data) ==
    {id \in EnabledIds(data) : Account(data, id).credentials.refreshToken # Null}

\* Request r is being routed in this step.
Routing(r) == req[r].pc = "idle" /\ req'[r].pc = "selected"

\* Account id is enabled and holds a refresh token, but its token has
\* expired, no request routed to it is about to refresh it, and an account
\* before it in the store is enabled with a refresh token too: round-robin
\* selects among the valid accounts, or else takes the first refreshable
\* one, and neither can be id.
ShutOut(id) ==
    /\ id \in RefreshableIds(Store)
    /\ id \notin UsableIds(Store, now)
    /\ \A r \in Requests :
          req[r].pc \in {"selected", "refreshing", "json"} => req[r].account # id
    /\ \E other \in RefreshableIds(Store) :
          IndexOf(Store, other) < IndexOf(Store, id)

\* An account that is shut out stays shut out and is not selected, whatever
\* the server does and however time passes.
ShutOutForGood ==
    [][\A id \in KnownIds :
          ShutOut(id) => /\ ShutOut(id)'
                         /\ \A r \in Requests : Routing(r) => req'[r].account # id]_vars

\* C34: under round-robin, with at least two enabled accounts that hold a
\* refresh token and requests served one after the other while tokens
\* expire and are refreshed, no such account stops being selected for
\* good: no request is routed past an account that can never be selected
\* again.
C34_NoStarvation ==
    [][\A r \in Requests :
          (Routing(r) /\ Cardinality(RefreshableIds(Store)) >= 2)
          => \A id \in RefreshableIds(Store) : ~ShutOut(id)]_vars

\* C35: under round-robin with at least two enabled valid accounts, a
\* request routed while another is in flight, routed and with its usage
\* not yet recorded, gets a different account.
C35_ConcurrentRequestsSpread ==
    [][\A r1, r2 \in Requests :
          (/\ r1 # r2
           /\ req[r1].pc \in {"selected", "upstream"}
           /\ Routing(r2)
           /\ Cardinality(UsableIds(Store, now)) >= 2)
          => req'[r2].account # req[r1].account]_vars

\* C36: under round-robin with at least two enabled valid accounts, the
\* request that follows one answered non-2xx by the upstream on account A
\* is routed to another account than A.
C36_FailoverToOtherAccount ==
    [][\A r1, r2 \in Requests :
          (/\ r1 # r2
           /\ req[r1].pc = "responded"
           /\ req[r1].upstream # Null /\ req[r1].upstream >= 300
           /\ Routing(r2)
           /\ Cardinality(UsableIds(Store, now)) >= 2)
          => req'[r2].account # req[r1].account]_vars

-----------------------------------------------------------------------------
\* Account id as the store holds it, but for its credentials.
Profile(data, id) ==
    [Account(data, id) EXCEPT !.credentials = Null]

\* The upstream base URL resolved for account id.
BaseUrl(data, id) ==
    ResolveBaseUrl(ResourceUrlText(Account(data, id).credentials.resourceUrl))

\* The refresh of request r is written to its account, from an answer
\* that leaves resource_url out.
RefreshWritten(r) ==
    /\ req[r].response.resource_url = Null
    /\ Has(Store, req[r].account)
    /\ RefreshJson(r)

\* C37: a token refresh whose answer omits resource_url keeps the
\* account's persisted resourceUrl, so the base URL resolved for the
\* account is the same before and after; enabled, name, lastUsed and
\* requestCount of the account and every other account are unchanged.
C37_RefreshKeepsResourceUrl ==
    [][\A r \in Requests :
          RefreshWritten(r)
          => /\ Account(Store, req[r].account).credentials.resourceUrl
                  = Account(Store', req[r].account).credentials.resourceUrl
             /\ BaseUrl(Store, req[r].account) = BaseUrl(Store', req[r].account)
             /\ Profile(Store, req[r].account) = Profile(Store', req[r].account)
             /\ \A id \in Keys(Store) \ {req[r].account} :
                   Account(Store, id) = Account(Store', id)]_vars

\* The rest of the frame holds: a refresh changes nothing but the
\* credentials of its account.
RefreshChangesCredentialsOnly ==
    [][\A r \in Requests :
          RefreshWritten(r)
          => /\ Profile(Store, req[r].account) = Profile(Store', req[r].account)
             /\ \A id \in Keys(Store) \ {req[r].account} :
                   Account(Store, id) = Account(Store', id)]_vars

-----------------------------------------------------------------------------
\* Both the CLI and GET /status have counted.
BothCounted == listing.pc = "asked" /\ listing.listed /\ listing.status

\* C38: the CLI and the server classify every account with an access
\* token alike, isCredentialsExpired being true exactly when isTokenValid
\* is false, so the CLI's 'Active' count equals activeAccounts of GET
\* /status for the same store at the same time.
C38_CliAndServerAgree ==
    (BothCounted /\ Len(Store.accounts) > 0)
    => /\ \A id \in Keys(Store) :
             ~Falsy(Account(Store, id).credentials.accessToken)
             => (IsCredentialsExpired(Account(Store, id).credentials, now)
                 <=> ~IsTokenValid(Account(Store, id).credentials, now))
       /\ listing.active = listing.activeAccounts

\* With every token expired or valid by more than the buffer, the two
\* counts agree.
AgreeOffTheEdge ==
    (/\ BothCounted
     /\ Len(Store.accounts) > 0
     /\ \A id \in Keys(Store) :
           Account(Store, id).credentials.expiryDate
               \notin {Null, now + TOKEN_REFRESH_BUFFER_MS})
    => listing.active = listing.activeAccounts

-----------------------------------------------------------------------------
\* The loop of the flow has been entered: the interval is set.
IntervalSet == flow.pc # "none" /\ flow.interval # Null

\* max(pollIntervalMs, 10000)
IntervalCeiling ==
    IF flow.pollIntervalMs > MaxPollIntervalMs
    THEN flow.pollIntervalMs
    ELSE MaxPollIntervalMs

\* C39: in performDeviceAuthFlow the poll interval never decreases during
\* a run and never exceeds max(pollIntervalMs, 10000 ms), whatever the
\* initial pollIntervalMs and the pending and slow_down answers.
C39_IntervalMonotoneAndCapped ==
    [][IntervalSet =>
          /\ flow'.interval >= flow.interval
          /\ flow'.interval <= IntervalCeiling]_vars

\* From an initial interval at or below the cap, it is so.
IntervalMonotoneBelowCap ==
    [][(IntervalSet /\ flow.pollIntervalMs <= MaxPollIntervalMs) =>
          /\ flow'.interval >= flow.interval
          /\ flow'.interval <= IntervalCeiling]_vars
=============================================================================
